---------------------------- MODULE Spec2Model ----------------------------
(***************************************************************************)
(* Model of awstats/urls.py: ingestion of AWStats summary files into the   *)
(* tables website_url, website_url_stats and file_tracking.                *)
(*                                                                         *)
(* Text is modelled as sequences of characters, so that the slicing,       *)
(* splitting and prefix tests of the source are computed rather than       *)
(* assumed.  A file is a sequence of bytes, an offset is a position in it, *)
(* and its lines are decoded from UTF-8 as the source reads them.          *)
(***************************************************************************)
EXTENDS Integers, Sequences, FiniteSets, TLC

(***************************************************************************)
(* Python string primitives used by the source.                            *)
(***************************************************************************)
Min(a, b) == IF a < b THEN a ELSE b
Max(a, b) == IF a > b THEN a ELSE b

\* s[i:j] for 0 <= i, 0 <= j (Python clips both ends).
Slice(s, i, j) == SubSeq(s, i + 1, Min(j, Len(s)))

\* s[i:]
SliceFrom(s, i) == SubSeq(s, i + 1, Len(s))

\* s[:-n]
DropLast(s, n) == SubSeq(s, 1, Len(s) - n)

\* s.startswith(p)
StartsWith(s, p) == Len(p) <= Len(s) /\ SubSeq(s, 1, Len(p)) = p

\* s.endswith(p)
EndsWith(s, p) == Len(p) <= Len(s) /\ SubSeq(s, Len(s) - Len(p) + 1, Len(s)) = p

\* p in s
Contains(s, p) == \E i \in 0..(Len(s) - Len(p)) : SubSeq(s, i + 1, i + Len(p)) = p

\* Position (1-based) of the first c in s at or after position i, 0 if none.
RECURSIVE IndexFrom(_, _, _)
IndexFrom(s, c, i) ==
    IF i > Len(s) THEN 0
    ELSE IF s[i] = c THEN i
    ELSE IndexFrom(s, c, i + 1)

\* s.split(sep) for a one-character separator: empty pieces are kept.
RECURSIVE SplitOn(_, _)
SplitOn(s, sep) ==
    LET k == IndexFrom(s, sep, 1)
    IN  IF k = 0 THEN <<s>>
        ELSE <<SubSeq(s, 1, k - 1)>> \o SplitOn(SubSeq(s, k + 1, Len(s)), sep)

\* sep.join(parts)
RECURSIVE JoinWith(_, _)
JoinWith(parts, sep) ==
    IF Len(parts) = 0 THEN <<>>
    ELSE IF Len(parts) = 1 THEN parts[1]
    ELSE parts[1] \o <<sep>> \o JoinWith(Tail(parts), sep)

\* parts[1:-1]
Inner(parts) == SubSeq(parts, 2, Len(parts) - 1)

(***************************************************************************)
(* Characters.  A character is a string: the character itself where a      *)
(* TLA+ string can hold it (printable ASCII but the grave accent, and the  *)
(* escapes \t \n \f \r), otherwise "U+" and its code point in at least     *)
(* four upper-case hexadecimal digits ("U+000B", "U+00E1", "U+1D7CE").     *)
(* A byte is a number in 0..255.                                           *)
(***************************************************************************)
Ascii ==
    <<
       " ", "!", "\"", "#", "$", "%", "&", "'", "(", ")", "*", "+", ",", "-", ".", "/",
       "0", "1", "2", "3", "4", "5", "6", "7", "8", "9", ":", ";", "<", "=", ">", "?",
       "@", "A", "B", "C", "D", "E", "F", "G", "H", "I", "J", "K", "L", "M", "N", "O",
       "P", "Q", "R", "S", "T", "U", "V", "W", "X", "Y", "Z", "[", "\\", "]", "^", "_",
       "U+0060", "a", "b", "c", "d", "e", "f", "g", "h", "i", "j", "k", "l", "m", "n", "o",
       "p", "q", "r", "s", "t", "u", "v", "w", "x", "y", "z", "{", "|", "}", "~"
    >>

HexChars ==
    <<"0", "1", "2", "3", "4", "5", "6", "7", "8", "9", "A", "B", "C", "D", "E", "F">>

RECURSIVE HexOf(_)
HexOf(n) ==
    IF n < 16 THEN HexChars[n + 1] ELSE HexOf(n \div 16) \o HexChars[(n % 16) + 1]

\* chr(cp)
Chr(cp) ==
    CASE cp \in 32..126 -> Ascii[cp - 31]
      [] cp = 9  -> "\t"
      [] cp = 10 -> "\n"
      [] cp = 12 -> "\f"
      [] cp = 13 -> "\r"
      [] OTHER   ->
           "U+" \o (IF cp < 16 THEN "000" ELSE IF cp < 256 THEN "00"
                    ELSE IF cp < 4096 THEN "0" ELSE "")
                \o HexOf(cp)

MaxCodePoint == 1114111

AsciiChars == {Chr(b) : b \in 0..127}

AsciiOrd == [c \in AsciiChars |-> CHOOSE b \in 0..127 : Chr(b) = c]

\* ord(c)
Ord(c) ==
    IF c \in AsciiChars THEN AsciiOrd[c]
    ELSE CHOOSE cp \in 128..MaxCodePoint : Chr(cp) = c

\* The characters str.strip(), str.split() and int() take for white space
\* (str.isspace).
WhitespaceCodes ==
    (9..13) \cup (28..32) \cup {133, 160, 5760} \cup (8192..8202)
    \cup {8232, 8233, 8239, 8287, 12288}

Whitespace == {Chr(cp) : cp \in WhitespaceCodes}

\* s with its leading, and its trailing, characters of the set ws removed.
RECURSIVE LStripIn(_, _)
LStripIn(s, ws) ==
    IF Len(s) > 0 /\ s[1] \in ws THEN LStripIn(Tail(s), ws) ELSE s

RECURSIVE RStripIn(_, _)
RStripIn(s, ws) ==
    IF Len(s) > 0 /\ s[Len(s)] \in ws
    THEN RStripIn(SubSeq(s, 1, Len(s) - 1), ws) ELSE s

\* s.strip()
LStrip(s) == LStripIn(s, Whitespace)
RStrip(s) == RStripIn(s, Whitespace)
Strip(s) == RStrip(LStrip(s))

\* Length of the leading run of non-whitespace characters of s.
RECURSIVE WordLen(_)
WordLen(s) ==
    IF Len(s) = 0 \/ s[1] \in Whitespace THEN 0 ELSE 1 + WordLen(Tail(s))

\* s.split(): split on runs of whitespace, no empty pieces.
RECURSIVE SplitWS(_)
SplitWS(s) ==
    LET t == LStrip(s)
        n == WordLen(t)
    IN  IF Len(t) = 0 THEN <<>>
        ELSE <<SubSeq(t, 1, n)>> \o SplitWS(SubSeq(t, n + 1, Len(t)))

Digits == {"0", "1", "2", "3", "4", "5", "6", "7", "8", "9"}

\* The code points of the digit zero of every decimal digit system (Unicode
\* category Nd); the nine code points after each are its digits 1..9.
DecimalZeros ==
    { 48, 1632, 1776, 1984, 2406, 2534, 2662, 2790, 2918, 3046, 3174, 3302, 3430,
      3558, 3664, 3792, 3872, 4160, 4240, 6112, 6160, 6470, 6608, 6784, 6800, 6992,
      7088, 7232, 7248, 42528, 43216, 43264, 43472, 43504, 43600, 44016, 65296,
      66720, 68912, 69734, 69872, 69942, 70096, 70384, 70736, 70864, 71248, 71360,
      71472, 71904, 72016, 72784, 73040, 73120, 92768, 92864, 93008, 120782, 120792,
      120802, 120812, 120822, 123200, 123632, 125264, 130032 }

\* The characters of each decimal value: what int() and the \d of re accept.
DecimalChars == [d \in 0..9 |-> {Chr(z + d) : z \in DecimalZeros}]

IsDecimal(c) == \E d \in 0..9 : c \in DecimalChars[d]

DigitVal(c) == CHOOSE d \in 0..9 : c \in DecimalChars[d]

\* The natural number of a sequence of decimal digit values.
RECURSIVE DigitsValue(_, _)
DigitsValue(ds, acc) ==
    IF Len(ds) = 0 THEN acc ELSE DigitsValue(Tail(ds), 10 * acc + ds[1])

\* The longest run of digits int() converts, leading zeros counted and
\* underscores not: sys.int_info.default_max_str_digits of the interpreter
\* (Python 3.11 and later; the program sets no other limit).  A longer run is
\* a ValueError.
MaxStrDigits == 4300

DigitCount(s) == Cardinality({i \in 1..Len(s) : s[i] # "_"})

\* A digit run from its first digit other than zero on (leading zeros and the
\* underscores among them add nothing to the value).
Significant(s) ==
    LET nz == {i \in 1..Len(s) : s[i] # "_" /\ DigitVal(s[i]) # 0}
    IN  IF nz = {} THEN <<>>
        ELSE SubSeq(s, CHOOSE i \in nz : \A j \in nz : i <= j, Len(s))

IsDigitRun(s) ==
    /\ Len(s) > 0
    /\ DigitCount(s) <= MaxStrDigits
    /\ \A i \in 1..Len(s) : s[i] = "_" \/ IsDecimal(s[i])
    /\ s[1] # "_" /\ s[Len(s)] # "_"
    /\ \A i \in 1..(Len(s) - 1) : ~(s[i] = "_" /\ s[i + 1] = "_")

\* The white space int() drops around the number: the separators U+001C to
\* U+001F are white space for str.strip() and not for int().
IntWhitespace == {Chr(cp) : cp \in WhitespaceCodes \ (28..31)}

\* The text int() reads, less the white space around it, and its digit run
\* (after the sign, if any).
IntText(s) == RStripIn(LStripIn(s, IntWhitespace), IntWhitespace)

IntBody(s) ==
    SubSeq(IntText(s),
           IF Len(IntText(s)) > 0 /\ IntText(s)[1] \in {"+", "-"} THEN 2 ELSE 1,
           Len(IntText(s)))

\* Whether int(s) returns (it raises ValueError otherwise).
IsInt(s) == IsDigitRun(IntBody(s))

\* A Python integer as a numeral: its sign and its decimal digits without
\* leading zeros (none for zero).  Python's integers have no largest value;
\* the numeral holds those beyond the arithmetic of the model.
NotUnderscore(c) == c # "_"

IntNumeral(s) ==
    LET run == SelectSeq(Significant(IntBody(s)), NotUnderscore)
    IN  [neg    |-> Len(run) > 0 /\ IntText(s)[1] = "-",
         digits |-> [k \in 1..Len(run) |-> DigitVal(run[k])]]

NumeralZero == [neg |-> FALSE, digits |-> <<>>]

NumeralValue(n) ==
    IF n.neg THEN 0 - DigitsValue(n.digits, 0) ELSE DigitsValue(n.digits, 0)

\* a < b for natural numbers given by their digits.
DigitsLess(a, b) ==
    \/ Len(a) < Len(b)
    \/ /\ Len(a) = Len(b)
       /\ \E i \in 1..Len(a) : a[i] < b[i] /\ \A j \in 1..(i - 1) : a[j] = b[j]

\* int(s): [ok |-> FALSE] stands for ValueError.
ParseInt(s) ==
    IF IsInt(s) THEN [ok |-> TRUE, val |-> NumeralValue(IntNumeral(s))]
    ELSE [ok |-> FALSE, val |-> 0]

(***************************************************************************)
(* UTF-8.  Utf8At gives the sequence that starts at byte i: the number n   *)
(* of bytes it takes and its code point, or for an ill-formed sequence the *)
(* length of its maximal well-formed prefix (at least 1) and -1.           *)
(***************************************************************************)
Utf8At(bytes, i) ==
    LET b    == bytes[i]
        lo   == IF b = 224 THEN 160 ELSE IF b = 240 THEN 144 ELSE 128
        hi   == IF b = 237 THEN 159 ELSE IF b = 244 THEN 143 ELSE 191
        cont(k) == k <= Len(bytes) /\ bytes[k] \in 128..191
        ok2  == i + 1 <= Len(bytes) /\ bytes[i + 1] \in lo..hi
        ok3  == ok2 /\ cont(i + 2)
        ok4  == ok3 /\ cont(i + 3)
        low(k) == bytes[k] - 128
    IN  CASE b < 128 -> [n |-> 1, cp |-> b]
          [] b \in 194..223 ->
               IF ok2 THEN [n |-> 2, cp |-> (b - 192) * 64 + low(i + 1)]
               ELSE [n |-> 1, cp |-> -1]
          [] b \in 224..239 ->
               IF ok3 THEN [n |-> 3, cp |-> (b - 224) * 4096 + low(i + 1) * 64 + low(i + 2)]
               ELSE [n |-> IF ok2 THEN 2 ELSE 1, cp |-> -1]
          [] b \in 240..244 ->
               IF ok4 THEN [n |-> 4, cp |-> (b - 240) * 262144 + low(i + 1) * 4096
                                            + low(i + 2) * 64 + low(i + 3)]
               ELSE [n |-> IF ok3 THEN 3 ELSE IF ok2 THEN 2 ELSE 1, cp |-> -1]
          [] OTHER -> [n |-> 1, cp |-> -1]

\* The code points of bytes[i..], -1 for each ill-formed sequence.
RECURSIVE Utf8Scan(_, _)
Utf8Scan(bytes, i) ==
    IF i > Len(bytes) THEN <<>>
    ELSE <<Utf8At(bytes, i).cp>> \o Utf8Scan(bytes, i + Utf8At(bytes, i).n)

ReplacementCode == 65533

\* bytes.decode('utf-8'): ok = FALSE stands for UnicodeDecodeError.
Utf8Decode(bytes) ==
    LET cps == Utf8Scan(bytes, 1)
    IN  IF \E k \in 1..Len(cps) : cps[k] = -1 THEN [ok |-> FALSE, text |-> <<>>]
        ELSE [ok |-> TRUE, text |-> [k \in 1..Len(cps) |-> Chr(cps[k])]]

\* bytes.decode('utf-8', 'replace')
Utf8DecodeReplace(bytes) ==
    LET cps == Utf8Scan(bytes, 1)
    IN  [k \in 1..Len(cps) |-> Chr(IF cps[k] = -1 THEN ReplacementCode ELSE cps[k])]

\* chr(cp).encode('utf-8')
Utf8Bytes(cp) ==
    IF cp < 128 THEN <<cp>>
    ELSE IF cp < 2048 THEN <<192 + (cp \div 64), 128 + (cp % 64)>>
    ELSE IF cp < 65536
    THEN <<224 + (cp \div 4096), 128 + ((cp \div 64) % 64), 128 + (cp % 64)>>
    ELSE <<240 + (cp \div 262144), 128 + ((cp \div 4096) % 64),
           128 + ((cp \div 64) % 64), 128 + (cp % 64)>>

\* text.encode('utf-8')
RECURSIVE Utf8Encode(_)
Utf8Encode(text) ==
    IF Len(text) = 0 THEN <<>>
    ELSE IF Len(text) = 1 THEN Utf8Bytes(Ord(text[1]))
    ELSE Utf8Encode(SubSeq(text, 1, Len(text) \div 2))
         \o Utf8Encode(SubSeq(text, Len(text) \div 2 + 1, Len(text)))

(***************************************************************************)
(* urllib.parse.unquote (urls.py line 5, used at line 115).  The text is   *)
(* cut into its runs of ASCII characters; in each run a "%" followed by    *)
(* two hexadecimal digits becomes the byte they name and any other         *)
(* character its own byte, and the bytes of the run are decoded as UTF-8,  *)
(* each ill-formed sequence giving U+FFFD.  Characters outside ASCII are   *)
(* kept.                                                                   *)
(***************************************************************************)
HexDigits == Digits \cup {"a", "b", "c", "d", "e", "f", "A", "B", "C", "D", "E", "F"}

HexVal(c) ==
    IF c \in Digits THEN DigitVal(c)
    ELSE CASE c \in {"a", "A"} -> 10 [] c \in {"b", "B"} -> 11
           [] c \in {"c", "C"} -> 12 [] c \in {"d", "D"} -> 13
           [] c \in {"e", "E"} -> 14 [] c \in {"f", "F"} -> 15

\* Length of the leading run of ASCII characters of s.
RECURSIVE AsciiRunLen(_)
AsciiRunLen(s) ==
    IF Len(s) = 0 \/ s[1] \notin AsciiChars THEN 0 ELSE 1 + AsciiRunLen(Tail(s))

\* unquote_to_bytes on a text of ASCII characters.
RECURSIVE unquote_to_bytes(_)
unquote_to_bytes(s) ==
    IF Len(s) = 0 THEN <<>>
    ELSE IF s[1] = "%" /\ Len(s) >= 3 /\ s[2] \in HexDigits /\ s[3] \in HexDigits
    THEN <<16 * HexVal(s[2]) + HexVal(s[3])>> \o unquote_to_bytes(SubSeq(s, 4, Len(s)))
    ELSE <<Ord(s[1])>> \o unquote_to_bytes(Tail(s))

RECURSIVE unquote(_)
unquote(s) ==
    IF Len(s) = 0 THEN <<>>
    ELSE LET n == AsciiRunLen(s)
         IN  IF n = 0 THEN <<s[1]>> \o unquote(Tail(s))
             ELSE Utf8DecodeReplace(unquote_to_bytes(SubSeq(s, 1, n)))
                  \o unquote(SubSeq(s, n + 1, Len(s)))

(***************************************************************************)
(* Markers and fixed texts of the source.                                  *)
(***************************************************************************)
BEGIN_MAP   == <<"B", "E", "G", "I", "N", "_", "M", "A", "P">>
END_MAP     == <<"E", "N", "D", "_", "M", "A", "P">>
POS_        == <<"P", "O", "S", "_">>
POS_SIDER   == <<"P", "O", "S", "_", "S", "I", "D", "E", "R">>
BEGIN_SIDER == <<"B", "E", "G", "I", "N", "_", "S", "I", "D", "E", "R">>
END_SIDER   == <<"E", "N", "D", "_", "S", "I", "D", "E", "R">>
WikiPrefix  == <<"w", "i", "k", "i", "/">>
DotTxt      == <<".", "t", "x", "t">>
Awstats     == <<"a", "w", "s", "t", "a", "t", "s">>

\* The lines a binary file yields from byte off on (for line in file): the
\* bytes between line feeds.
FileLines(bytes, off) ==
    LET raw == SplitOn(SliceFrom(bytes, off), 10)
    IN  IF Len(raw[Len(raw)]) = 0 THEN SubSeq(raw, 1, Len(raw) - 1) ELSE raw

\* line.decode('utf-8').strip(); ok = FALSE stands for UnicodeDecodeError.
DecodeStrip(raw) ==
    LET d == Utf8Decode(raw) IN [ok |-> d.ok, line |-> Strip(d.text)]

(***************************************************************************)
(* Parsing of one summary file.                                            *)
(***************************************************************************)
\* positions[name] = value (a dict assignment).
Put(positions, name, value) ==
    [n \in (DOMAIN positions) \cup {name} |-> IF n = name THEN value ELSE positions[n]]

\* The loop of parse_begin_map over lines[i..]; ok = FALSE is the
\* UnicodeDecodeError of line.decode or the ValueError of int(parts[1]).  The
\* positions are kept as numerals.
\* MapLine is one turn of the loop (lines 85-93), d being the decoded and
\* stripped line of line 85.
RECURSIVE MapScan(_, _, _), MapLine(_, _, _, _)
MapScan(lines, i, positions) ==
    IF i > Len(lines) THEN [ok |-> TRUE, positions |-> positions]
    ELSE MapLine(lines, i, positions, DecodeStrip(lines[i]))

MapPosition(lines, i, positions, parts) ==
    IF Len(parts) = 2 /\ StartsWith(parts[1], POS_)
    THEN IF IsInt(parts[2])
         THEN MapScan(lines, i + 1, Put(positions, parts[1], IntNumeral(parts[2])))
         ELSE [ok |-> FALSE, positions |-> positions]
    ELSE MapScan(lines, i + 1, positions)

MapLine(lines, i, positions, d) ==
    IF ~d.ok THEN [ok |-> FALSE, positions |-> positions]
    ELSE IF StartsWith(d.line, BEGIN_MAP) THEN MapScan(lines, i + 1, positions)
    ELSE IF StartsWith(d.line, END_MAP) THEN [ok |-> TRUE, positions |-> positions]
    ELSE MapPosition(lines, i, positions, SplitWS(d.line))

parse_begin_map(bytes) == MapScan(FileLines(bytes, 0), 1, <<>>)

\* The ignore patterns: the non-blank lines of ignore_urls.txt, stripped.
IgnorePatterns == << <<"S", ":">> >>

\* A filter that lets every URL through.
should_ignore_url_never(url) == FALSE

should_ignore_url(url) ==
    \/ url \in {<<>>, <<"/">>}
    \/ \E k \in 1..Len(IgnorePatterns) : StartsWith(url, IgnorePatterns[k])

\* Lines 107-115: the stored form of the first field of a record.
StripSlash(url) == IF StartsWith(url, <<"/">>) THEN SliceFrom(url, 1) ELSE url
StripWiki(url)  == IF StartsWith(url, WikiPrefix) THEN SliceFrom(url, Len(WikiPrefix)) ELSE url
\* A normalization that decodes first.
NormalizeUrlDecodeFirst(raw) == StripWiki(StripSlash(unquote(raw)))

NormalizeUrl(raw) == unquote(StripWiki(StripSlash(raw)))

\* The loop of parse_pos_sider over lines[i..]; ok = FALSE is the
\* UnicodeDecodeError of line.decode or the ValueError of map(int, parts[1:]).
\* SiderLine is one turn of the loop (lines 101-126), d being the decoded
\* and stripped line of line 101; SiderRecord is lines 107-126 for the
\* normalized url and the four counters n[2..5] of a five-field line.
RECURSIVE SiderScan(_, _, _), SiderLine(_, _, _, _)
SiderScan(lines, i, url_data) ==
    IF i > Len(lines) THEN [ok |-> TRUE, data |-> url_data]
    ELSE SiderLine(lines, i, url_data, DecodeStrip(lines[i]))

SiderRecord(lines, i, url_data, url, n) ==
    IF should_ignore_url(url) THEN SiderScan(lines, i + 1, url_data)
    ELSE IF \E k \in 2..5 : ~n[k].ok THEN [ok |-> FALSE, data |-> url_data]
    ELSE SiderScan(lines, i + 1,
                   Append(url_data,
                          [url |-> url, pages |-> n[2].val, bandwidth |-> n[3].val,
                           entry |-> n[4].val, exit |-> n[5].val]))

SiderFields(lines, i, url_data, parts) ==
    IF Len(parts) # 5 THEN SiderScan(lines, i + 1, url_data)
    ELSE SiderRecord(lines, i, url_data, NormalizeUrl(parts[1]),
                     [k \in 2..5 |-> ParseInt(parts[k])])

SiderLine(lines, i, url_data, d) ==
    IF ~d.ok THEN [ok |-> FALSE, data |-> url_data]
    ELSE IF StartsWith(d.line, END_SIDER) THEN [ok |-> TRUE, data |-> url_data]
    ELSE IF StartsWith(d.line, <<"#">>) \/ StartsWith(d.line, BEGIN_SIDER)
    THEN SiderScan(lines, i + 1, url_data)
    ELSE SiderFields(lines, i, url_data, SplitWS(d.line))

\* A scan that drops the records whose counters are not integers.
RECURSIVE SiderScanLenient(_, _, _)
SiderScanLenient(lines, i, url_data) ==
    IF i > Len(lines) THEN [ok |-> TRUE, data |-> url_data]
    ELSE LET d == DecodeStrip(lines[i])
             line == d.line
         IN  IF ~d.ok THEN [ok |-> FALSE, data |-> url_data]
             ELSE IF StartsWith(line, END_SIDER) THEN [ok |-> TRUE, data |-> url_data]
             ELSE LET parts == SplitWS(line)
                      fine  == /\ ~StartsWith(line, <<"#">>)
                               /\ ~StartsWith(line, BEGIN_SIDER)
                               /\ Len(parts) = 5
                               /\ ~should_ignore_url(NormalizeUrl(parts[1]))
                               /\ \A k \in 2..5 : ParseInt(parts[k]).ok
                  IN  SiderScanLenient(lines, i + 1,
                          IF fine
                          THEN Append(url_data,
                                      [url |-> NormalizeUrl(parts[1]),
                                       pages |-> ParseInt(parts[2]).val,
                                       bandwidth |-> ParseInt(parts[3]).val,
                                       entry |-> ParseInt(parts[4]).val,
                                       exit |-> ParseInt(parts[5]).val])
                          ELSE url_data)

\* file.seek(pos_sider_offset), line 98, on the file opened 'rb' at line 159,
\* and the first read of the loop of line 100.  The offset is handed to lseek
\* as a signed 64-bit integer: the largest is MaxOffT = 2^63 - 1, the least
\* -2^63, and outside them seek raises ValueError.  lseek refuses (EINVAL,
\* OSError) a negative offset and one above the largest file size of the
\* file system the file lies on, max_bytes.  Any other offset is taken, past
\* the end of the file included.  The read that follows asks for a buffer of
\* 4096 bytes and is refused (EINVAL, OSError) when offset + 4096 passes
\* 2^63 - 1, that is for an offset above MaxReadT = 2^63 - 4097.
MaxOffT == <<9, 2, 2, 3, 3, 7, 2, 0, 3, 6, 8, 5, 4, 7, 7, 5, 8, 0, 7>>
MinOffT == <<9, 2, 2, 3, 3, 7, 2, 0, 3, 6, 8, 5, 4, 7, 7, 5, 8, 0, 8>>
MaxReadT == <<9, 2, 2, 3, 3, 7, 2, 0, 3, 6, 8, 5, 4, 7, 7, 1, 7, 1, 1>>

\* The largest file size of ext4 with blocks of 4 KiB, 2^44 - 4096, and of
\* tmpfs, 2^63 - 1.
MaxBytesExt4 == <<1, 7, 5, 9, 2, 1, 8, 6, 0, 4, 0, 3, 2, 0>>
MaxBytesTmpfs == MaxOffT

\* The file systems the directories of main may lie on (the source binds
\* them to none), each given by its largest file size.
MaxBytes == {MaxBytesExt4, MaxBytesTmpfs}

seek(offset, max_bytes) ==
    IF DigitsLess(IF offset.neg THEN MinOffT ELSE MaxOffT, offset.digits)
    THEN "ValueError"
    ELSE IF offset.neg \/ DigitsLess(max_bytes, offset.digits) THEN "OSError"
    ELSE "ok"

\* The first read of `for line in file`, line 100, at an offset seek took.
first_read(offset) ==
    IF DigitsLess(MaxReadT, offset.digits) THEN "OSError" ELSE "ok"

\* Lines 98-100 up to the first line read: the exception raised, or "ok".
seek_and_read(offset, max_bytes) ==
    IF seek(offset, max_bytes) # "ok" THEN seek(offset, max_bytes)
    ELSE first_read(offset)

\* Where the reading is after a seek that was taken: at the offset, or at the
\* end of the file when the offset is past it.
FilePosition(bytes, offset) ==
    IF Len(offset.digits) > 9 THEN Len(bytes)
    ELSE Min(NumeralValue(offset), Len(bytes))

\* What parse_pos_sider gives for the result r of its scan: error names the
\* exception when ok = FALSE (UnicodeDecodeError is a ValueError).
Scanned(r) ==
    [ok |-> r.ok, error |-> IF r.ok THEN "" ELSE "ValueError", data |-> r.data]

parse_pos_sider_lenient(bytes, pos_sider_offset, max_bytes) ==
    IF seek_and_read(pos_sider_offset, max_bytes) # "ok"
    THEN [ok |-> FALSE, error |-> seek_and_read(pos_sider_offset, max_bytes), data |-> <<>>]
    ELSE Scanned(SiderScanLenient(FileLines(bytes, FilePosition(bytes, pos_sider_offset)),
                                  1, <<>>))

parse_pos_sider(bytes, pos_sider_offset, max_bytes) ==
    IF seek_and_read(pos_sider_offset, max_bytes) # "ok"
    THEN [ok |-> FALSE, error |-> seek_and_read(pos_sider_offset, max_bytes), data |-> <<>>]
    ELSE Scanned(SiderScan(FileLines(bytes, FilePosition(bytes, pos_sider_offset)),
                           1, <<>>))

\* Lines 159-169 of process_file: what reading the file gives when it lies
\* on a file system of largest file size max_bytes.
\*   "ValueError", "OSError"  the exception that left parse_begin_map or
\*                            parse_pos_sider
\*   "nosider"  POS_SIDER is not in positions (line 164)
\*   "data"     sider_data was read
\* ReadSider is lines 164-169 for the result m of parse_begin_map.
SiderRead(r) ==
    IF r.ok THEN [kind |-> "data", data |-> r.data] ELSE [kind |-> r.error, data |-> <<>>]

\* A reading that takes a missing POS_SIDER entry for offset 0.
ReadFileFromStart(bytes, max_bytes) ==
    LET m == parse_begin_map(bytes)
    IN  IF ~m.ok THEN [kind |-> "ValueError", data |-> <<>>]
        ELSE SiderRead(parse_pos_sider(bytes,
                                       IF POS_SIDER \in DOMAIN m.positions
                                       THEN m.positions[POS_SIDER] ELSE NumeralZero,
                                       max_bytes))

ReadSider(bytes, m, max_bytes) ==
    IF ~m.ok THEN [kind |-> "ValueError", data |-> <<>>]
    ELSE IF POS_SIDER \notin DOMAIN m.positions THEN [kind |-> "nosider", data |-> <<>>]
    ELSE SiderRead(parse_pos_sider(bytes, m.positions[POS_SIDER], max_bytes))

ReadFile(bytes, max_bytes) == ReadSider(bytes, parse_begin_map(bytes), max_bytes)

(***************************************************************************)
(* The environment of a run: the directories of main (lines 200-205), the  *)
(* websites table (read-only), the files that may lie in the directories   *)
(* and what each version of a file holds.                                  *)
(***************************************************************************)
DirAwstats   == <<"/", "v", "a", "r", "/", "l", "i", "b", "/", "a", "w", "s", "t", "a", "t", "s">>
DirFrankfurt ==
    <<"/", "h", "o", "m", "e", "/", "p", "r", "i", "v", "a", "t", "e", "/", "s", "e", "r", "v", "e", "r", "_", "s", "t", "a", "t", "s", "/", "f", "r", "a", "n", "k", "f", "u", "r", "t">>
DirSaopaulo  ==
    <<"/", "h", "o", "m", "e", "/", "p", "r", "i", "v", "a", "t", "e", "/", "s", "e", "r", "v", "e", "r", "_", "s", "t", "a", "t", "s", "/", "s", "a", "o", "p", "a", "u", "l", "o">>
DirSingapore ==
    <<"/", "h", "o", "m", "e", "/", "p", "r", "i", "v", "a", "t", "e", "/", "s", "e", "r", "v", "e", "r", "_", "s", "t", "a", "t", "s", "/", "s", "i", "n", "g", "a", "p", "o", "r", "e">>

directories == <<DirAwstats, DirFrankfurt, DirSaopaulo, DirSingapore>>

AllDirs == {directories[i] : i \in 1..Len(directories)}

\* server_mapping.get(directory); 0 stands for None.
get_server_id(directory) ==
    CASE directory = DirAwstats   -> 1
      [] directory = DirFrankfurt -> 2
      [] directory = DirSaopaulo  -> 4
      [] directory = DirSingapore -> 3
      [] OTHER -> 0

SiteA  == <<"a">>
SiteAB == <<"a", ".", "b">>
SiteZ  == <<"z">>

\* Rows (id, name) of the table websites.
websites == {[id |-> 1, name |-> SiteA], [id |-> 2, name |-> SiteAB]}

\* SELECT id FROM websites WHERE name = %s; 0 stands for no row.
WebsiteLookup(name) ==
    IF \E w \in websites : w.name = name
    THEN (CHOOSE w \in websites : w.name = name).id
    ELSE 0

FileA3   == <<"a", "w", "s", "t", "a", "t", "s", "0", "3", "2", "0", "2", "4", ".", "a", ".", "t", "x", "t">>
FileA4   == <<"a", "w", "s", "t", "a", "t", "s", "0", "4", "2", "0", "2", "4", ".", "a", ".", "t", "x", "t">>
FileAB3  == <<"a", "w", "s", "t", "a", "t", "s", "0", "3", "2", "0", "2", "4", ".", "a", ".", "b", ".", "t", "x", "t">>
FileABC3 == <<"a", "w", "s", "t", "a", "t", "s", "0", "3", "2", "0", "2", "4", ".", "a", ".", "b", ".", "c">>
FileZ3   == <<"a", "w", "s", "t", "a", "t", "s", "0", "3", "2", "0", "2", "4", ".", "z", ".", "t", "x", "t">>
FileBad  == <<"x", ".", "t", "x", "t">>

\* The (directory, file name) pairs at which a file may exist.
Placements ==
    { <<DirAwstats, FileA3>>, <<DirFrankfurt, FileA3>>, <<DirAwstats, FileA4>>,
      <<DirFrankfurt, FileAB3>>, <<DirAwstats, FileABC3>>, <<DirAwstats, FileZ3>> }

\* The versions a file goes through.
Revisions == {1, 2, 3}

\* What the file at a placement is seen as over time: absent (0) or in one of
\* its versions.
Versions(p) ==
    CASE p = <<DirAwstats, FileA3>>   -> {1, 2, 3}
      [] p = <<DirFrankfurt, FileA3>> -> {0, 1, 2}
      [] p = <<DirAwstats, FileA4>>   -> {1, 2, 3}
      [] p = <<DirFrankfurt, FileAB3>> -> {1, 2, 3}
      [] p = <<DirAwstats, FileABC3>> -> {1}
      [] p = <<DirAwstats, FileZ3>>   -> {0, 1, 2}

\* os.path.getmtime of version v of the file at p, in quarters of a second:
\* version 1 is written at 1.00 s and version 2 at 2.00 s.  The third version
\* of awstats032024.a.txt is written at 1.50 s, in the second of the first;
\* the third of awstats042024.a.txt is a copy that keeps the time of the
\* second.
TicksPerSecond == 4

getmtime(p, v) ==
    CASE p = <<DirAwstats, FileA3>> /\ v = 3 -> 6
      [] p = <<DirAwstats, FileA4>> /\ v = 3 -> 8
      [] OTHER -> TicksPerSecond * v

\* Line 152: datetime.fromtimestamp(mtime).replace(microsecond=0), the local
\* time cut to the whole second, here in seconds (the offset of the zone is
\* left out; where clocks are set back, two times an hour apart give one
\* value as two times of one second do).
fromtimestamp(mtime) == mtime \div TicksPerSecond

\* The value line 152 computes for version v of the file at p.
StampOf(p, v) == fromtimestamp(getmtime(p, v))

\* One text line from its fields, and a file from its lines.
Line(fields) == JoinWith(fields, " ")
Text(lines) == JoinWith(lines, "\n") \o <<"\n">>

\* The index region: 33 bytes, so the Sider section starts at offset 33.
MapWithOffset(offset) ==
    << Line(<<BEGIN_MAP, <<"1">>>>), Line(<<POS_SIDER, offset>>), END_MAP >>
MapWithSider == MapWithOffset(<<"3", "3">>)
MapWithoutSider ==
    << Line(<<BEGIN_MAP, <<"1">>>>), Line(<<POS_ \o <<"M", "I", "S", "C">>, <<"3", "3">>>>),
       END_MAP >>

Rec(url, pages, entry, exit) == Line(<<url, pages, <<"9">>, entry, exit>>)

Sider(recs) ==
    << Line(<<BEGIN_SIDER, <<"3">>>>), <<"#">> \o <<" ">> \o <<"U", "R", "L">> >>
    \o recs \o << END_SIDER >>

UrlWikiA  == <<"/", "w", "i", "k", "i", "/", "A">>
UrlWikiA2 == <<"w", "i", "k", "i", "/", "A">>
UrlB      == <<"/", "B", "%", "2", "0", "B">>
UrlC      == <<"/", "C">>
UrlIgn    == <<"/", "S", ":", "x">>
UrlRoot   == <<"/">>
UrlWikiOnly == <<"/", "w", "i", "k", "i", "/">>
UrlSlashes  == <<"/", "/">>

\* The text of version t of the file named f in directory d.
ContentText(d, f, t) ==
    CASE f = FileA3 /\ d = DirAwstats /\ t = 1 ->
           Text(MapWithSider \o Sider(<< Rec(UrlWikiA, <<"1">>, <<"1">>, <<"0">>),
                                         Rec(UrlIgn, <<"5">>, <<"5">>, <<"5">>),
                                         Rec(UrlWikiA2, <<"2">>, <<"0">>, <<"1">>) >>))
      [] f = FileA3 /\ d = DirAwstats /\ t = 3 ->
           Text(MapWithSider \o Sider(<< Rec(UrlB, <<"4">>, <<"1">>, <<"0">>) >>))
      [] f = FileA3 /\ d = DirAwstats /\ t = 2 ->
           Text(MapWithSider \o Sider(<< Rec(UrlWikiA, <<"2">>, <<"1">>, <<"1">>),
                                         Rec(UrlWikiOnly, <<"7">>, <<"7">>, <<"7">>),
                                         Rec(UrlSlashes, <<"8">>, <<"8">>, <<"8">>),
                                         Rec(UrlIgn, <<"9">>, <<"9">>, <<"9">>),
                                         Rec(UrlB, <<"1">>, <<"0">>, <<"0">>) >>))
      [] f = FileA3 /\ d # DirAwstats /\ t = 1 ->
           Text(MapWithSider \o Sider(<< Rec(UrlB, <<"1">>, <<"1">>, <<"1">>),
                                         Rec(UrlRoot, <<"4">>, <<"x">>, <<"4">>) >>))
      [] f = FileA3 /\ d # DirAwstats /\ t = 2 ->
           Text(MapWithOffset(<<"9", "2", "2", "3", "3", "7", "2", "0", "3", "6", "8", "5",
                                "4", "7", "7", "5", "8", "0", "8">>)
                \o Sider(<< Rec(UrlB, <<"1">>, <<"1">>, <<"1">>) >>))
      [] f = FileZ3 /\ t = 2 ->
           Text(MapWithOffset(<<"-", "1">>)
                \o Sider(<< Rec(UrlWikiA, <<"1">>, <<"1">>, <<"1">>) >>))
      [] f = FileA4 /\ t = 1 ->
           Text(MapWithSider \o Sider(<< Rec(UrlWikiA, <<"1">>, <<"1">>, <<"1">>) >>))
      [] f = FileA4 /\ t = 2 ->
           Text(MapWithoutSider \o Sider(<< Rec(UrlWikiA, <<"1">>, <<"1">>, <<"1">>) >>))
      [] f = FileA4 /\ t = 3 ->
           Text(MapWithSider \o Sider(<< Rec(UrlWikiA, <<"3">>, <<"0">>, <<"1">>) >>))
      [] f = FileAB3 /\ t = 1 ->
           Text(MapWithSider \o Sider(<< Rec(UrlC, <<"1">>, <<"1">>, <<"1">>) >>))
      [] f = FileAB3 /\ t = 2 ->
           Text(MapWithSider \o Sider(<< Rec(UrlC, <<"x">>, <<"1">>, <<"1">>) >>))
      [] f = FileAB3 /\ t = 3 ->
           Text(MapWithOffset(<<"4", "6", "1", "1", "6", "8", "6", "0", "1", "8", "4", "2",
                                "7", "3", "8", "7", "9", "0", "4">>)
                \o Sider(<< Rec(UrlC, <<"1">>, <<"1">>, <<"1">>) >>))
      [] f = FileABC3 ->
           Text(MapWithSider \o Sider(<< Rec(UrlC, <<"2">>, <<"0">>, <<"0">>) >>))
      [] OTHER ->
           Text(MapWithSider \o Sider(<< Rec(UrlWikiA, <<"1">>, <<"1">>, <<"1">>) >>))

\* The bytes of that file.
Content(d, f, t) == Utf8Encode(ContentText(d, f, t))

\* What process_file reads from each version of each file (lines 159-169) on
\* each file system.
FileData ==
    [p \in Placements, t \in Revisions, b \in MaxBytes |->
        ReadFile(Content(p[1], p[2], t), b)]

(***************************************************************************)
(* The database.  A database state is a record                             *)
(*   url    the rows (id, website_id, url) of website_url                  *)
(*   stats  website_url_stats: key <<website_url_id, server_id, year,      *)
(*          month>> to the counters of the row                             *)
(*   track  file_tracking: key <<filename, server_id>> to the row          *)
(*   ingested, partial, forced   history: the merges that completed, each  *)
(*          as <<filename, server_id, fingerprint written, version read>>, *)
(*          the files whose merge has begun                                *)
(*          and is not yet tracked, whether a forced reset ran; no         *)
(*          operation reads them                                           *)
(* The connection works on txn; committed is what commit() made durable.   *)
(***************************************************************************)
EmptyDb ==
    [url |-> {}, stats |-> <<>>, track |-> <<>>,
     ingested |-> {}, partial |-> {}, forced |-> FALSE]

\* A fingerprint check that never recognises a file.
has_file_been_processed_never(db, filename, server_id, last_modified, force) ==
    FALSE

\* A fingerprint check that looks the file name up on every server.
has_file_been_processed_any_server(db, filename, server_id, last_modified, force) ==
    /\ ~force
    /\ \E k \in DOMAIN db.track :
          k[1] = filename /\ db.track[k].last_modified = last_modified

\* Lines 59-67.
has_file_been_processed(db, filename, server_id, last_modified, force) ==
    IF force THEN FALSE
    ELSE /\ <<filename, server_id>> \in DOMAIN db.track
         /\ db.track[<<filename, server_id>>].last_modified = last_modified

\* Lines 70-75: now is the time of the run.
update_file_tracking(db, filename, server_id, last_modified, now) ==
    [db EXCEPT !.track =
        Put(db.track, <<filename, server_id>>,
            [last_modified |-> last_modified, processed_date |-> now])]

\* SELECT id FROM website_url WHERE website_id = %s AND url = %s; 0 for no row.
UrlIdOf(db, website_id, url) ==
    IF \E r \in db.url : r.website_id = website_id /\ r.url = url
    THEN (CHOOSE r \in db.url : r.website_id = website_id /\ r.url = url).id
    ELSE 0

\* A resolution that inserts a row on every call.
get_or_create_always_insert(db, next_id, website_id, url) ==
    [id |-> next_id,
     db |-> [db EXCEPT !.url =
                @ \cup {[id |-> next_id, website_id |-> website_id, url |-> url]}],
     next_id |-> next_id + 1]

\* Lines 130-136: the id, the database and the auto-increment counter after
\* the call.
get_or_create_website_url_id(db, next_id, website_id, url) ==
    IF UrlIdOf(db, website_id, url) # 0
    THEN [id |-> UrlIdOf(db, website_id, url), db |-> db, next_id |-> next_id]
    ELSE [id |-> next_id,
          db |-> [db EXCEPT !.url =
                     @ \cup {[id |-> next_id, website_id |-> website_id, url |-> url]}],
          next_id |-> next_id + 1]

\* An upsert that replaces the counters of an existing bucket.
update_server_stats_overwrite(db, website_url_id, server_id, year, month, data) ==
    [db EXCEPT !.stats =
        Put(@, <<website_url_id, server_id, year, month>>,
            [hits        |-> data.pages,
             entry_count |-> data.entry,
             exit_count  |-> data.exit])]

\* Lines 139-147.
update_server_stats(db, website_url_id, server_id, year, month, data) ==
    LET key == <<website_url_id, server_id, year, month>>
    IN  IF key \in DOMAIN db.stats
        THEN [db EXCEPT !.stats[key] =
                 [hits        |-> @.hits + data.pages,
                  entry_count |-> @.entry_count + data.entry,
                  exit_count  |-> @.exit_count + data.exit]]
        ELSE [db EXCEPT !.stats =
                 Put(@, key, [hits        |-> data.pages,
                              entry_count |-> data.entry,
                              exit_count  |-> data.exit])]

\* A table restricted to the keys in keep.
Restrict(f, keep) == [k \in (DOMAIN f) \cap keep |-> f[k]]

UrlRow(db, id) == CHOOSE r \in db.url : r.id = id

\* DELETE ws ... INNER JOIN website_url wu ... WHERE <where(wu, key)>: a stats
\* row with no website_url row joins nothing and stays.
StatsKeysOfWebsite(db, website_id) ==
    {k \in DOMAIN db.stats :
        \E r \in db.url : r.id = k[1] /\ r.website_id = website_id}

\* A deletion that ignores the website of the join.
DeleteEveryWebsiteStats(db, website_id) ==
    [db EXCEPT !.stats = <<>>]

\* Lines 236-240.
DeleteWebsiteStats(db, website_id) ==
    [db EXCEPT !.stats = Restrict(@, (DOMAIN @) \ StatsKeysOfWebsite(db, website_id))]

\* Lines 293-297.
DeleteMonthStats(db, website_id, year, month) ==
    [db EXCEPT !.stats =
        Restrict(@, (DOMAIN @) \
                    {k \in StatsKeysOfWebsite(db, website_id) :
                        k[3] = year /\ k[4] = month})]

HasStats(db, id) == \E k \in DOMAIN db.stats : k[1] = id

\* A sweep that removes nothing.
KeepUnusedUrls(db, website_id) == db

\* Lines 242-246 and 299-303.
DeleteUnusedUrlsOfWebsite(db, website_id) ==
    [db EXCEPT !.url = {r \in @ : ~(r.website_id = website_id /\ ~HasStats(db, r.id))}]

\* Lines 306-307.
DeleteAll(db) == [db EXCEPT !.stats = <<>>, !.url = {}]

(***************************************************************************)
(* The two derivations of (website name, year, month) from a file name.    *)
(***************************************************************************)
\* Lines 171-177 of process_file; ok = FALSE is the ValueError of int().
ProcessFileKey(filename) ==
    LET year  == ParseInt(Slice(filename, 9, 13))
        month == ParseInt(Slice(filename, 7, 9))
    IN  [ok           |-> year.ok /\ month.ok,
         website_name |-> JoinWith(Inner(SplitOn(filename, ".")), "."),
         year         |-> year.val,
         month        |-> month.val]

\* re.match(r'awstats(\d{2})(\d{4})', s)
MatchesStamp(s) ==
    /\ StartsWith(s, Awstats)
    /\ Len(s) >= 13
    /\ \A i \in 8..13 : IsDecimal(s[i])

\* Lines 266-283 of main; ok = FALSE is one of the two early returns.
ForcedFileKey(filename) ==
    LET filename_without_extension == DropLast(filename, 4)
        parts == SplitOn(filename_without_extension, ".")
    IN  IF Len(parts) < 2 \/ ~MatchesStamp(filename_without_extension)
        THEN [ok |-> FALSE, website_name |-> <<>>, year |-> 0, month |-> 0]
        ELSE [ok           |-> TRUE,
              website_name |-> JoinWith(Tail(parts), "."),
              year  |-> ParseInt(Slice(filename_without_extension, 9, 13)).val,
              month |-> ParseInt(Slice(filename_without_extension, 7, 9)).val]

(***************************************************************************)
(* main.  args holds the command line; an absent option and an empty one   *)
(* are both the empty text (they are tested for truth only).               *)
(***************************************************************************)
NoText == <<>>

ServerFrankfurt == <<"f", "r", "a", "n", "k", "f", "u", "r", "t">>
ServerMars      == <<"m", "a", "r", "s">>

Args(server, file, website, force) ==
    [server |-> server, file |-> file, website |-> website, force |-> force]

\* The command lines of the runs without --force.
UnforcedArgs ==
    { Args(NoText, NoText, NoText, FALSE),
      Args(ServerFrankfurt, NoText, NoText, FALSE),
      Args(ServerMars, NoText, NoText, FALSE),
      Args(NoText, FileA3, NoText, FALSE),
      Args(NoText, NoText, SiteA, FALSE),
      Args(NoText, NoText, SiteZ, FALSE) }

\* The command lines of the runs with --force.
ForcedArgs ==
    { Args(NoText, NoText, NoText, TRUE),
      Args(NoText, NoText, SiteA, TRUE),
      Args(NoText, NoText, SiteAB, TRUE),
      Args(NoText, FileA3, NoText, TRUE),
      Args(NoText, FileABC3, NoText, TRUE),
      Args(NoText, FileBad, NoText, TRUE),
      Args(NoText, FileA3, SiteAB, TRUE),
      Args(ServerFrankfurt, NoText, NoText, TRUE) }

ArgSets == UnforcedArgs \cup ForcedArgs

NoArgs == [server |-> NoText, file |-> NoText, website |-> NoText, force |-> FALSE]

\* Lines 207-208: [dir for dir in directories if args.server in dir].
RECURSIVE FilterDirs(_, _)
FilterDirs(dirs, server) ==
    IF Len(dirs) = 0 THEN <<>>
    ELSE (IF Contains(dirs[1], server) THEN <<dirs[1]>> ELSE <<>>)
         \o FilterDirs(Tail(dirs), server)

SelectedDirs(a) ==
    IF a.server # NoText THEN FilterDirs(directories, a.server) ELSE directories

\* Lines 225-307: the forced reset applied to db.  kind is
\*   "ok"        the reset was done and the loop at line 309 is entered
\*   "return"    one of the returns at lines 234, 252, 271, 283, 291
\*   "NameError" line 249 names get_server_id_from_name, which is defined nowhere
ResetWebsite(db, a) ==
    IF a.website # NoText
    THEN DeleteUnusedUrlsOfWebsite(DeleteWebsiteStats(db, WebsiteLookup(a.website)),
                                   WebsiteLookup(a.website))
    ELSE db

ResetFile(db, a) ==
    LET k == ForcedFileKey(a.file)
        w == WebsiteLookup(k.website_name)
    IN  DeleteUnusedUrlsOfWebsite(DeleteMonthStats(db, w, k.year, k.month), w)

ForceReset(db, a) ==
    IF a.website # NoText /\ WebsiteLookup(a.website) = 0
    THEN [kind |-> "return", db |-> db]
    ELSE IF a.server # NoText
    THEN [kind |-> "NameError", db |-> ResetWebsite(db, a)]
    ELSE IF a.file # NoText
    THEN IF ~ForcedFileKey(a.file).ok
              \/ WebsiteLookup(ForcedFileKey(a.file).website_name) = 0
         THEN [kind |-> "return", db |-> ResetWebsite(db, a)]
         ELSE [kind |-> "ok", db |-> ResetFile(ResetWebsite(db, a), a)]
    ELSE IF a.website = NoText
    THEN [kind |-> "ok", db |-> DeleteAll(db)]
    ELSE [kind |-> "ok", db |-> ResetWebsite(db, a)]

(***************************************************************************)
(* State.                                                                  *)
(***************************************************************************)
VARIABLES
    fs,         \* the files: placement -> version, 0 when absent
    dirs,       \* the directories of main that exist
    committed,  \* the durable database
    txn,        \* the database as the open connection sees it
    next_id,    \* AUTO_INCREMENT of website_url (not undone by a rollback)
    pc,         \* "idle", "reset", "loop" (line 309), "open" (line 159),
                \* "merge" (line 180)
    args,       \* the command line of the run in progress
    todo,       \* the directories still to visit, the first with its files
                \* still to visit once it has been listed
    cur,        \* the locals of process_file
    started,    \* the value of changes when the run in progress started
    runs,       \* number of runs started: the clock of processed_date
    changes,    \* number of file system changes made
    outcome,    \* how the last run ended
    first_field, \* the first field of a record line handed to parse_pos_sider alone
    decoded      \* the records parse_pos_sider returned for that line

vars == <<fs, dirs, committed, txn, next_id, pc, args, todo, cur, started, runs, changes,
         outcome, first_field, decoded>>

\* Number of runs of main.
MaxRuns == 2

\* Number of changes made to the files between runs.
MaxChanges == 1

\* The same two bounds for the runs without --force taken alone.
MaxUnforcedRuns == 3
MaxUnforcedChanges == 2

\* last_modified is the value of line 152, read the version that open()
\* found.
NoCur == [filename |-> NoText, dir |-> NoText, server_id |-> 0, last_modified |-> 0,
          read |-> 0, website_id |-> 0, year |-> 0, month |-> 0, data |-> <<>>]

InitialFs == [p \in Placements |-> IF p[2] = FileZ3 THEN 0 ELSE 1]

Init ==
    /\ fs = InitialFs
    /\ dirs = AllDirs
    /\ committed = EmptyDb
    /\ txn = EmptyDb
    /\ next_id = 1
    /\ pc = "idle"
    /\ args = NoArgs
    /\ todo = <<>>
    /\ cur = NoCur
    /\ started = 0
    /\ runs = 0
    /\ changes = 0
    /\ outcome = "none"
    /\ first_field = <<>>
    /\ decoded = <<>>

\* os.path.exists(os.path.join(directory, name)): a file of a directory that
\* does not exist is absent.
Exists(files, directory, name) ==
    <<directory, name>> \in Placements /\ files[<<directory, name>>] # 0

\* os.listdir(directory): the names in the directory; ok = FALSE is the
\* FileNotFoundError raised when the directory does not exist.
Listdir(files, existing, directory) ==
    [ok    |-> directory \in existing,
     names |-> {p[2] : p \in {q \in Placements : q[1] = directory /\ files[q] # 0}}]

\* Whether the turn of the loop of line 309 for directory reaches os.listdir
\* (line 322).
Lists(directory, a) == get_server_id(directory) # 0 /\ a.file = NoText

\* Lines 310-330: the files of one directory that reach process_file.
Candidates(files, existing, directory, a) ==
    IF get_server_id(directory) = 0 THEN {}
    ELSE IF a.file # NoText
    THEN (IF Exists(files, directory, a.file) THEN {a.file} ELSE {})
    ELSE {f \in Listdir(files, existing, directory).names :
            /\ EndsWith(f, DotTxt)
            /\ Contains(f, Awstats)
            /\ (a.website # NoText => SliceFrom(DropLast(f, 4), 14) = a.website)}

\* The loop of line 309 over the directories ds before its first turn: no directory has
\* been listed.
Unlisted(ds) ==
    [i \in 1..Len(ds) |-> [dir |-> ds[i], files |-> {}, listed |-> FALSE]]

\* todo once file f of its first directory has been taken.
Taken(f) ==
    IF todo[1].files = {f} THEN Tail(todo)
    ELSE <<[todo[1] EXCEPT !.files = @ \ {f}]>> \o Tail(todo)

\* The process ends without commit(): the open transaction is rolled back.
EndWithoutCommit(how) ==
    /\ txn' = committed
    /\ pc' = "idle"
    /\ args' = NoArgs
    /\ todo' = <<>>
    /\ cur' = NoCur
    /\ started' = 0
    /\ outcome' = how
    /\ UNCHANGED <<fs, dirs, committed, changes>>

(***************************************************************************)
(* Actions.                                                                *)
(***************************************************************************)
\* The changes the file system may undergo in one step: a file of a directory
\* that exists is replaced as a whole by another version, appears or is
\* removed; a directory is removed with the files it holds; a directory is
\* made.
FsChanges(files, existing) ==
    { [files |-> [files EXCEPT ![x[1]] = x[2]], dirs |-> existing] :
        x \in { y \in Placements \X ({0} \cup Revisions) :
                  /\ y[2] \in Versions(y[1])
                  /\ files[y[1]] # y[2]
                  /\ y[1][1] \in existing } }
    \cup { [files |-> [p \in Placements |-> IF p[1] = d THEN 0 ELSE files[p]],
            dirs  |-> existing \ {d}] : d \in existing }
    \cup { [files |-> files, dirs |-> existing \cup {d}] : d \in AllDirs \ existing }

\* The file system changes, between the runs and during them (nothing locks
\* it).
TouchUpTo(max_changes) ==
    /\ changes < max_changes
    /\ \E c \in FsChanges(fs, dirs) :
          /\ fs' = c.files
          /\ dirs' = c.dirs
    /\ changes' = changes + 1
    /\ outcome' = IF pc = "idle" THEN "none" ELSE outcome
    /\ UNCHANGED <<committed, txn, next_id, pc, args, todo, cur, started, runs>>
    /\ UNCHANGED <<first_field, decoded>>

Touch == TouchUpTo(MaxChanges)

\* main, lines 189-222.
StartRunWith(arg_set, max_runs) ==
    /\ pc = "idle"
    /\ runs < max_runs
    /\ runs' = runs + 1
    /\ \E a \in arg_set :
          \/ /\ a.server # NoText /\ SelectedDirs(a) = <<>>
             /\ EndWithoutCommit("return")
             /\ UNCHANGED next_id
          \/ /\ ~(a.server # NoText /\ SelectedDirs(a) = <<>>)
             /\ a.website # NoText /\ WebsiteLookup(a.website) = 0
             /\ EndWithoutCommit("return")
             /\ UNCHANGED next_id
          \/ /\ ~(a.server # NoText /\ SelectedDirs(a) = <<>>)
             /\ ~(a.website # NoText /\ WebsiteLookup(a.website) = 0)
             /\ args' = a
             /\ pc' = IF a.force THEN "reset" ELSE "loop"
             /\ todo' = Unlisted(SelectedDirs(a))
             /\ started' = changes
             /\ outcome' = "none"
             /\ UNCHANGED <<fs, dirs, committed, txn, next_id, cur, changes>>
    /\ UNCHANGED <<first_field, decoded>>

StartRun == StartRunWith(ArgSets, MaxRuns)

\* main, lines 225-307.
DoReset ==
    /\ pc = "reset"
    /\ LET r == ForceReset(txn, args)
       IN  \/ /\ r.kind = "ok"
              /\ txn' = [r.db EXCEPT !.forced = TRUE]
              /\ pc' = "loop"
              /\ UNCHANGED <<fs, dirs, committed, args, todo, cur, started, changes,
                             outcome>>
           \/ /\ r.kind # "ok"
              /\ EndWithoutCommit(r.kind)
    /\ UNCHANGED <<next_id, runs>>
    /\ UNCHANGED <<first_field, decoded>>

\* main, lines 309-322: the next directory is entered and its files that
\* reach process_file are found (os.path.exists or os.listdir).  os.listdir
\* raises FileNotFoundError when the directory does not exist.
EnterDirectory ==
    /\ pc = "loop"
    /\ todo # <<>>
    /\ ~todo[1].listed
    /\ \/ /\ Lists(todo[1].dir, args)
          /\ ~Listdir(fs, dirs, todo[1].dir).ok
          /\ EndWithoutCommit("FileNotFoundError")
       \/ /\ ~(Lists(todo[1].dir, args) /\ ~Listdir(fs, dirs, todo[1].dir).ok)
          /\ LET found == Candidates(fs, dirs, todo[1].dir, args)
             IN  todo' = IF found = {} THEN Tail(todo)
                         ELSE <<[todo[1] EXCEPT !.files = found, !.listed = TRUE]>>
                              \o Tail(todo)
          /\ UNCHANGED <<fs, dirs, committed, txn, pc, args, cur, started, changes,
                         outcome>>
    /\ UNCHANGED <<next_id, runs>>
    /\ UNCHANGED <<first_field, decoded>>

\* process_file, lines 150-157, for one file of the directory being visited
\* (os.listdir returns them in no particular order): the modification time
\* is read, cut to the second and compared with the fingerprint.  getmtime
\* raises FileNotFoundError when the file is gone.
StatFile ==
    /\ pc = "loop"
    /\ todo # <<>>
    /\ todo[1].listed
    /\ \E f \in todo[1].files :
          LET d    == todo[1].dir
              sid  == get_server_id(d)
              t    == fs[<<d, f>>]
              last == fromtimestamp(getmtime(<<d, f>>, t))
          IN  \/ /\ t = 0
                 /\ EndWithoutCommit("FileNotFoundError")
              \/ /\ t # 0
                 /\ has_file_been_processed(txn, f, sid, last, args.force)
                 /\ todo' = Taken(f)
                 /\ UNCHANGED <<fs, dirs, committed, txn, pc, args, cur, started, changes,
                                outcome>>
              \/ /\ t # 0
                 /\ ~has_file_been_processed(txn, f, sid, last, args.force)
                 /\ pc' = "open"
                 /\ cur' = [NoCur EXCEPT !.filename = f, !.dir = d, !.server_id = sid,
                                         !.last_modified = last]
                 /\ todo' = Taken(f)
                 /\ UNCHANGED <<fs, dirs, committed, txn, args, started, changes,
                                outcome>>
    /\ UNCHANGED <<next_id, runs>>
    /\ UNCHANGED <<first_field, decoded>>

\* process_file, lines 159-177: the file is opened and read as it is now,
\* which need not be the version whose modification time line 152 took, on
\* the file system it lies on, and the keys of its buckets are derived from
\* its name.  open raises FileNotFoundError when the file is gone; the
\* reading ends by ValueError or OSError (ReadFile), lines 172-177 by
\* ValueError.
ProcessFile ==
    /\ pc = "open"
    /\ \E max_bytes \in MaxBytes :
       LET p    == <<cur.dir, cur.filename>>
           t    == fs[p]
           read == FileData[p, t, max_bytes]
           key  == ProcessFileKey(cur.filename)
           wid  == WebsiteLookup(key.website_name)
       IN  \/ /\ t = 0
              /\ EndWithoutCommit("FileNotFoundError")
           \/ /\ t # 0
              /\ read.kind = "nosider"
              /\ pc' = "loop"
              /\ cur' = NoCur
              /\ UNCHANGED <<fs, dirs, committed, txn, args, todo, started, changes,
                             outcome>>
           \/ /\ t # 0
              /\ read.kind = "OSError"
              /\ EndWithoutCommit("OSError")
           \/ /\ t # 0
              /\ read.kind = "ValueError" \/ (read.kind = "data" /\ (wid = 0 \/ ~key.ok))
              /\ EndWithoutCommit("ValueError")
           \/ /\ t # 0
              /\ read.kind = "data" /\ wid # 0 /\ key.ok
              /\ pc' = "merge"
              /\ cur' = [cur EXCEPT !.read = t, !.website_id = wid, !.year = key.year,
                                    !.month = key.month, !.data = read.data]
              /\ txn' = [txn EXCEPT !.partial = @ \cup {<<cur.filename, cur.server_id>>}]
              /\ UNCHANGED <<fs, dirs, committed, args, todo, started, changes, outcome>>
    /\ UNCHANGED <<next_id, runs>>
    /\ UNCHANGED <<first_field, decoded>>

\* process_file, lines 180-182: one turn of the loop over sider_data.
MergeRecord ==
    /\ pc = "merge"
    /\ cur.data # <<>>
    /\ LET g == get_or_create_website_url_id(txn, next_id, cur.website_id, cur.data[1].url)
       IN  /\ txn' = update_server_stats(g.db, g.id, cur.server_id, cur.year, cur.month,
                                         cur.data[1])
           /\ next_id' = g.next_id
    /\ cur' = [cur EXCEPT !.data = Tail(@)]
    /\ UNCHANGED <<fs, dirs, committed, pc, args, todo, started, runs, changes, outcome>>
    /\ UNCHANGED <<first_field, decoded>>

\* process_file, lines 184-186.
TrackFile ==
    /\ pc = "merge"
    /\ cur.data = <<>>
    /\ txn' = [update_file_tracking(txn, cur.filename, cur.server_id,
                                    cur.last_modified, runs)
                 EXCEPT !.ingested =
                           @ \cup {<<cur.filename, cur.server_id, cur.last_modified,
                                     cur.read>>},
                        !.partial = @ \ {<<cur.filename, cur.server_id>>}]
    /\ pc' = "loop"
    /\ cur' = NoCur
    /\ UNCHANGED <<fs, dirs, committed, next_id, args, todo, started, runs, changes,
                   outcome>>
    /\ UNCHANGED <<first_field, decoded>>

\* main, lines 332-334.
Commit ==
    /\ pc = "loop"
    /\ todo = <<>>
    /\ committed' = txn
    /\ pc' = "idle"
    /\ args' = NoArgs
    /\ started' = 0
    /\ outcome' = "commit"
    /\ UNCHANGED <<fs, dirs, txn, next_id, todo, cur, runs, changes>>
    /\ UNCHANGED <<first_field, decoded>>

\* The process is terminated during a run.
Kill ==
    /\ pc # "idle"
    /\ EndWithoutCommit("killed")
    /\ UNCHANGED <<next_id, runs>>
    /\ UNCHANGED <<first_field, decoded>>

Next ==
    \/ Touch
    \/ StartRun
    \/ DoReset
    \/ EnterDirectory
    \/ StatFile
    \/ ProcessFile
    \/ MergeRecord
    \/ TrackFile
    \/ Commit
    \/ Kill

Spec == Init /\ [][Next]_vars

\* The runs without --force taken alone, with more of them and more changes
\* of the file system: the first MaxChanges changes fall at any time, the
\* later ones between the runs.
NextUnforced ==
    \/ ((pc = "idle" \/ changes < MaxChanges) /\ TouchUpTo(MaxUnforcedChanges))
    \/ StartRunWith(UnforcedArgs, MaxUnforcedRuns)
    \/ EnterDirectory
    \/ StatFile
    \/ ProcessFile
    \/ MergeRecord
    \/ TrackFile
    \/ Commit
    \/ Kill

SpecUnforced == Init /\ [][NextUnforced]_vars

(***************************************************************************)
(* parse_pos_sider applied to a section of one record line, for first     *)
(* fields built from the prefixes the normalization looks for, their       *)
(* percent-encoded forms and a name.                                       *)
(***************************************************************************)
\* Number of pieces a first field is built from.
MaxPieces == 3

SomePage == <<"S", "o", "m", "e", "%", "2", "0", "P", "a", "g", "e">>

Pieces ==
    { <<"/">>, WikiPrefix, <<"%", "2", "F">>, <<"%", "7", "7", "i", "k", "i", "/">>,
      SomePage, <<"S", ":">>, <<"%", "C", "3">>, <<"%", "A", "1">> }

RECURSIVE Flatten(_)
Flatten(ps) == IF Len(ps) = 0 THEN <<>> ELSE ps[1] \o Flatten(Tail(ps))

RawUrls == { Flatten(ps) : ps \in UNION { [1..n -> Pieces] : n \in 1..MaxPieces } }

\* Lines 100-126 for the section holding the one record line "<r> 1 9 1 1".
DecodeLine ==
    /\ first_field = <<>>
    /\ \E r \in RawUrls :
          /\ first_field' = r
          /\ decoded' = parse_pos_sider(
                          Utf8Encode(Text(<<Rec(r, <<"1">>, <<"1">>, <<"1">>)>>)),
                          NumeralZero, MaxBytesExt4).data
    /\ UNCHANGED <<fs, dirs, committed, txn, next_id, pc, args, todo, cur, started, runs,
                   changes, outcome>>

NextDecode == DecodeLine

SpecDecode == Init /\ [][NextDecode]_vars

(***************************************************************************)
(* Vocabulary of the properties.                                           *)
(***************************************************************************)
\* The three tables of a database state.
Tables(db) == [url |-> db.url, stats |-> db.stats, track |-> db.track]

ServerIds == {get_server_id(directories[i]) : i \in 1..Len(directories)}

DirOfServer(server_id) ==
    directories[CHOOSE i \in 1..Len(directories) : get_server_id(directories[i]) = server_id]

WebsiteIds == {w.id : w \in websites}

\* What is read from version t of the file at p where seek and the first
\* read take its offset, if a file system does: the records read do not
\* depend on the file system.
Reading(p, t) == FileData[p, t, MaxBytesTmpfs]

\* Every URL some version of some file holds, and every month a file is named for.
KnownUrls ==
    UNION { {Reading(p, t).data[i].url : i \in 1..Len(Reading(p, t).data)} :
              p \in Placements, t \in Revisions }
KnownMonths == { <<ProcessFileKey(p[2]).year, ProcessFileKey(p[2]).month>> : p \in Placements }

Zero == [hits |-> 0, entry_count |-> 0, exit_count |-> 0]

Plus(c, e) ==
    [hits        |-> c.hits + e.hits,
     entry_count |-> c.entry_count + e.entry_count,
     exit_count  |-> c.exit_count + e.exit_count]

AsCounters(data) ==
    [hits |-> data.pages, entry_count |-> data.entry, exit_count |-> data.exit]

\* The sum of the records of data whose URL is url.
RECURSIVE ContributionOf(_, _)
ContributionOf(data, url) ==
    IF Len(data) = 0 THEN Zero
    ELSE IF data[1].url = url
    THEN Plus(AsCounters(data[1]), ContributionOf(Tail(data), url))
    ELSE ContributionOf(Tail(data), url)

\* The records of the ingestion v = <<filename, server_id, fingerprint
\* recorded, version read>>.
DataOf(v) == Reading(<<DirOfServer(v[2]), v[1]>>, v[4]).data

\* Every ingestion so far read the version whose modification time it had
\* taken: no file was replaced between lines 152 and 159.
ReadAsStated ==
    \A v \in txn.ingested \cup committed.ingested :
        v[3] = StampOf(<<DirOfServer(v[2]), v[1]>>, v[4])

\* The sum over the versions vs of their contributions to url.
RECURSIVE SumOfVersions(_, _)
SumOfVersions(vs, url) ==
    IF vs = {} THEN Zero
    ELSE LET v == CHOOSE x \in vs : TRUE
         IN  Plus(ContributionOf(DataOf(v), url), SumOfVersions(vs \ {v}, url))

\* The counters of the bucket (website, url, server, year, month); Zero when
\* there is no such bucket.
Bucket(db, website_id, url, server_id, year, month) ==
    LET key == <<UrlIdOf(db, website_id, url), server_id, year, month>>
    IN  IF key[1] # 0 /\ key \in DOMAIN db.stats THEN db.stats[key] ELSE Zero

\* The versions in vs that process_file merges into (website, server, year, month).
VersionsInto(vs, website_id, server_id, year, month) ==
    {v \in vs : /\ v[2] = server_id
                /\ WebsiteLookup(ProcessFileKey(v[1]).website_name) = website_id
                /\ ProcessFileKey(v[1]).year = year
                /\ ProcessFileKey(v[1]).month = month}

\* The files of the directories of a run that reach process_file.
InScope(files, existing, a) ==
    { <<d, f>> \in Placements :
        /\ \E i \in 1..Len(SelectedDirs(a)) : SelectedDirs(a)[i] = d
        /\ f \in Candidates(files, existing, d, a) }

\* The fingerprint stored in db for the file at placement p is the one
\* line 152 computes for its version t.
FingerprintOf(db, p, t) ==
    /\ <<p[2], get_server_id(p[1])>> \in DOMAIN db.track
    /\ db.track[<<p[2], get_server_id(p[1])>>].last_modified = StampOf(p, t)

\* The file at placement p is there and the fingerprint stored in db for it
\* is that of its current version: has_file_been_processed holds of it.
Fingerprinted(db, files, p) == files[p] # 0 /\ FingerprintOf(db, p, files[p])

\* Each ingestion recorded in db that wrote, for the file at p, the
\* fingerprint of version t had read version t: not another version of the
\* same second, nor one that replaced it between lines 152 and 159.
OwnFingerprint(db, p, t) ==
    \A v \in db.ingested :
        (v[1] = p[2] /\ v[2] = get_server_id(p[1]) /\ v[3] = StampOf(p, t)) => v[4] = t

\* c holds at least e in each counter.
Covers(c, e) ==
    /\ c.hits >= e.hits
    /\ c.entry_count >= e.entry_count
    /\ c.exit_count >= e.exit_count

\* The ingestions that a complete run with command line a makes when it
\* starts on the durable database db with the files as in files, and they
\* stay so during the run.
Pending(db, files, existing, a) ==
    { <<q[2], get_server_id(q[1]), StampOf(q, files[q]), files[q]>> :
        q \in { p \in InScope(files, existing, a) :
                  /\ a.force \/ ~Fingerprinted(db, files, p)
                  /\ Reading(p, files[p]).kind = "data" } }

\* The database on which the loop over the files of such a run starts.
Base(db, a) == IF a.force THEN ForceReset(db, a).db ELSE db

\* The website a stats row belongs to; 0 when its URL row is missing.
WebsiteOfKey(db, k) ==
    IF \E r \in db.url : r.id = k[1] THEN UrlRow(db, k[1]).website_id ELSE 0

\* The URL rows and the stats rows of db that belong to websites other than w.
OtherUrls(db, w) == {r \in db.url : r.website_id # w}
OtherStats(db, w) == Restrict(db.stats, {k \in DOMAIN db.stats : WebsiteOfKey(db, k) # w})

(***************************************************************************)
(* Properties.                                                             *)
(***************************************************************************)
\* C1 -- Idempotence.  In a run without --force during which the files stay
\* as they are, a file whose committed fingerprint equals its modification
\* time is never read or merged again and its tracking row stays as
\* committed; and when this holds of every file the run visits, the three
\* tables stay as committed up to the commit, which then leaves them as the
\* earlier run left them.
C1_Idempotence ==
    (pc \in {"loop", "open", "merge"} /\ ~args.force /\ changes = started) =>
        /\ \A p \in InScope(fs, dirs, args) :
              Fingerprinted(committed, fs, p) =>
                 /\ ~(pc \in {"open", "merge"} /\ cur.filename = p[2]
                        /\ cur.server_id = get_server_id(p[1]))
                 /\ txn.track[<<p[2], get_server_id(p[1])>>]
                       = committed.track[<<p[2], get_server_id(p[1])>>]
        /\ (\A p \in InScope(fs, dirs, args) : Fingerprinted(committed, fs, p)) =>
              (pc = "loop" /\ Tables(txn) = Tables(committed))

\* A second run without --force has visited files, all of them ingested by a
\* committed run and unchanged since, and is about to commit.
C1_Witness ==
    /\ pc = "loop" /\ todo = <<>> /\ ~args.force /\ changes = started
    /\ Cardinality(InScope(fs, dirs, args)) >= 2
    /\ \A p \in InScope(fs, dirs, args) : Fingerprinted(committed, fs, p)
    /\ committed.stats # <<>>

\* C2 -- Each distinct file version counted once.  In every committed state
\* reached by runs without --force, each of which read every file in the
\* version whose modification time it had taken, each bucket holds the sum of
\* the contributions of the distinct (file name, server, modification time)
\* versions ingested into it, and no stats row is without its URL row.
C2_DistinctVersionsOnce ==
    (pc = "idle" /\ outcome = "commit" /\ ReadAsStated) =>
    /\ \A k \in DOMAIN committed.stats : \E r \in committed.url : r.id = k[1]
    /\ \A w \in WebsiteIds, u \in KnownUrls, sid \in ServerIds, ym \in KnownMonths :
          Bucket(committed, w, u, sid, ym[1], ym[2])
            = SumOfVersions(VersionsInto(committed.ingested, w, sid, ym[1], ym[2]), u)

\* C3 -- A file's error does not end the run.  A run that has entered the
\* loop over the files, the four directories being there and the files
\* staying as they are, ends only by its commit (or because the process was
\* terminated), never by the error of one file.
C3_FileErrorDoesNotEndRun ==
    [][(pc \in {"loop", "open", "merge"} /\ changes = started /\ dirs = AllDirs
          /\ pc' = "idle")
          => outcome' \in {"commit", "killed"}]_vars

\* The records of the version that ingestion v read are all merged in db: each
\* has its URL row, and the bucket of its URL holds at least the file's
\* contribution.
RecordsMerged(db, v) ==
    LET key == ProcessFileKey(v[1])
        w   == WebsiteLookup(key.website_name)
    IN  \A i \in 1..Len(DataOf(v)) :
           /\ UrlIdOf(db, w, DataOf(v)[i].url) # 0
           /\ Covers(Bucket(db, w, DataOf(v)[i].url, v[2], key.year, key.month),
                     ContributionOf(DataOf(v), DataOf(v)[i].url))

\* In the durable database no file is partly merged, a fingerprint is
\* recorded exactly for the (file, server) pairs whose merge completed, and
\* the records of the ingestion that wrote a recorded fingerprint are all
\* merged.
C4_Durable ==
    /\ committed.partial = {}
    /\ \A k \in DOMAIN committed.track :
          \E v \in committed.ingested :
             <<v[1], v[2], v[3]>> = <<k[1], k[2], committed.track[k].last_modified>>
    /\ \A v \in committed.ingested :
          /\ <<v[1], v[2]>> \in DOMAIN committed.track
          /\ committed.track[<<v[1], v[2]>>].last_modified = v[3]
                => RecordsMerged(committed, v)

C4_RunResult ==
    (pc = "loop" /\ todo = <<>> /\ changes = started) =>
        /\ \A w \in WebsiteIds, u \in KnownUrls, sid \in ServerIds, ym \in KnownMonths :
              Bucket(txn, w, u, sid, ym[1], ym[2])
                = Plus(Bucket(Base(committed, args), w, u, sid, ym[1], ym[2]),
                       SumOfVersions(VersionsInto(Pending(committed, fs, dirs, args),
                                                  w, sid, ym[1], ym[2]), u))
        /\ \A v \in Pending(committed, fs, dirs, args) :
              /\ <<v[1], v[2]>> \in DOMAIN txn.track
              /\ txn.track[<<v[1], v[2]>>].last_modified = v[3]
        /\ \A k \in DOMAIN txn.track :
              (\A v \in Pending(committed, fs, dirs, args) : <<v[1], v[2]>> # k) =>
                 (k \in DOMAIN committed.track /\ txn.track[k] = committed.track[k])

C4_AbortStep ==
    outcome' \in {"killed", "ValueError", "OSError", "FileNotFoundError", "NameError",
                  "return"} =>
        (committed' = committed /\ txn' = committed)

\* C4 -- Per-file atomicity.  (1) In every durable state, for each (file,
\* server): either its fingerprint is recorded and all the accepted records
\* of the version read are merged, or nothing of its ingestion is recorded.
\* (2) A run that ends without its commit (error, early return, termination)
\* leaves the durable database as it was when the run started.  (3) A run
\* that reaches its commit, the files having stayed as they were when it
\* started, holds for every bucket what the database held when the run
\* started (after the forced reset, if any) plus the contribution of each
\* file version the run had to merge, and the fingerprints of exactly those
\* versions are rewritten: the result depends on the durable database and the
\* files only, so a run re-invoked after an abort ends as an uninterrupted
\* run.
C4_PerFileAtomicity ==
    [](C4_Durable /\ C4_RunResult) /\ [][C4_AbortStep]_vars

\* What holds of it: (2) and (3) as stated, and (1) until a forced reset has
\* run.
C4_UnforcedAtomicity ==
    []((~committed.forced => C4_Durable) /\ C4_RunResult) /\ [][C4_AbortStep]_vars

\* C5 -- Commit after each file.  While a run is between files or merging a
\* file, every fingerprint it has written so far is already durable.
C5_CommittedBeforeNextFile ==
    pc \in {"loop", "open", "merge"} =>
        \A k \in DOMAIN txn.track :
            k \in DOMAIN committed.track /\ committed.track[k] = txn.track[k]

\* C6 -- Additive merge.  One turn of the loop of process_file over the
\* records leaves a bucket for the key of the record: with the values of the
\* record when the key had no bucket, with the old counters plus the values of
\* the record when it had one; every other bucket is unchanged.
C6_MergeStep ==
    (pc = "merge" /\ pc' = "merge" /\ cur' # cur) =>
        LET rec    == cur.data[1]
            id     == UrlIdOf(txn', cur.website_id, rec.url)
            key    == <<id, cur.server_id, cur.year, cur.month>>
            before == UrlIdOf(txn, cur.website_id, rec.url)
        IN  /\ id # 0
            /\ before # 0 => id = before
            /\ DOMAIN txn'.stats = (DOMAIN txn.stats) \cup {key}
            /\ txn'.stats[key] = IF key \in DOMAIN txn.stats
                                 THEN Plus(txn.stats[key], AsCounters(rec))
                                 ELSE AsCounters(rec)
            /\ \A k \in (DOMAIN txn.stats) \ {key} : txn'.stats[k] = txn.stats[k]

C6_AdditiveMerge == [][C6_MergeStep]_vars

\* The two lines of one file that normalize to the same URL ("/wiki/A" and
\* "wiki/A", 1/1/0 and 2/0/1) have been merged into a bucket that did not
\* exist before the run.
C6_Witness ==
    /\ pc = "merge" /\ cur.data = <<>>
    /\ cur.filename = FileA3 /\ cur.server_id = get_server_id(DirAwstats)
    /\ cur.last_modified = 1 /\ cur.read = 1
    /\ Bucket(committed, 1, <<"A">>, cur.server_id, 2024, 3) = Zero
    /\ Bucket(txn, 1, <<"A">>, cur.server_id, 2024, 3)
          = [hits |-> 3, entry_count |-> 1, exit_count |-> 1]

\* C7 -- URL existence.  In every durable state each row of website_url is
\* referenced by at least one row of website_url_stats.
C7_NoUrlWithoutStats ==
    \A r \in committed.url : HasStats(committed, r.id)

\* A forced run has committed, URL rows remain, and a URL of a file whose
\* fingerprint is still recorded has no row any more: the sweep removed it.
C7_Witness ==
    /\ outcome = "commit"
    /\ committed.forced
    /\ committed.url # {}
    /\ \E v \in committed.ingested :
          /\ <<v[1], v[2]>> \in DOMAIN committed.track
          /\ committed.track[<<v[1], v[2]>>].last_modified = v[3]
          /\ \E i \in 1..Len(DataOf(v)) :
                 UrlIdOf(committed, WebsiteLookup(ProcessFileKey(v[1]).website_name),
                         DataOf(v)[i].url) = 0

\* C8 -- Frame of the reset by website.  Stated of every forced run given a
\* website W: its reset deletes exactly the stats rows and the URL rows of W,
\* and while the run goes through the files the rows of the other websites
\* are the durable ones.
C8_AnyRun_Reset ==
    (pc = "reset" /\ pc' = "loop" /\ args.website # NoText) =>
        LET w == WebsiteLookup(args.website)
        IN  /\ txn'.stats = OtherStats(txn, w)
            /\ txn'.url = OtherUrls(txn, w)

C8_AnyRun_Frame ==
    (pc \in {"loop", "open", "merge"} /\ args.force /\ args.website # NoText) =>
        LET w == WebsiteLookup(args.website)
        IN  /\ OtherUrls(txn, w) = OtherUrls(committed, w)
            /\ OtherStats(txn, w) = OtherStats(committed, w)

C8_AnyWebsiteRunFrame ==
    []C8_AnyRun_Frame /\ [][C8_AnyRun_Reset]_vars

\* C8 as it holds -- the same, of the forced runs given a website W and no
\* file name (the files visited are then those named awstatsMMYYYY.W.txt).
C8_Reset ==
    (pc = "reset" /\ pc' = "loop" /\ args.website # NoText /\ args.file = NoText) =>
        LET w == WebsiteLookup(args.website)
        IN  /\ txn'.stats = OtherStats(txn, w)
            /\ txn'.url = OtherUrls(txn, w)

C8_Frame ==
    (pc \in {"loop", "open", "merge"} /\ args.force /\ args.website # NoText
        /\ args.file = NoText) =>
        LET w == WebsiteLookup(args.website)
        IN  /\ OtherUrls(txn, w) = OtherUrls(committed, w)
            /\ OtherStats(txn, w) = OtherStats(committed, w)
            /\ pc = "merge" => cur.website_id = w

C8_WebsiteRunFrame ==
    []C8_Frame /\ [][C8_Reset]_vars

\* A forced run for website a.b alone has gone through its files: the rows of
\* a.b were deleted and merged anew, the durable rows of website a are there.
C8_Witness ==
    /\ pc = "loop" /\ todo = <<>>
    /\ args.force /\ args.website = SiteAB /\ args.file = NoText
    /\ OtherStats(committed, 2) # <<>>
    /\ committed.stats # OtherStats(committed, 2)
    /\ txn.stats # OtherStats(txn, 2)
    /\ txn.url # committed.url

\* C9 -- Reset by server.  The reset of a forced run given a server ends by
\* entering the loop over the files (unless the process is terminated).
C9_ServerResetCompletes ==
    [][(pc = "reset" /\ args.server # NoText /\ outcome' # "killed")
          => pc' = "loop"]_vars

\* C10 -- Forced recomputation of one file.  When a forced run given a file
\* name F (and no website) is about to commit, the files having stayed as
\* they were when it started, on every server where F exists the buckets F is
\* merged into hold exactly the contribution of the current version of F, and
\* the fingerprint of F is that of its modification time.
C10_ForcedFileRecomputed ==
    (pc = "loop" /\ todo = <<>> /\ args.force /\ args.file # NoText
        /\ args.website = NoText /\ changes = started) =>
        \A p \in InScope(fs, dirs, args) :
            LET sid == get_server_id(p[1])
                key == ProcessFileKey(p[2])
                w   == WebsiteLookup(key.website_name)
            IN  /\ Fingerprinted(txn, fs, p)
                /\ \A u \in KnownUrls :
                      Bucket(txn, w, u, sid, key.year, key.month)
                        = ContributionOf(Reading(p, fs[p]).data, u)

\* The versions of the files whose index (parse_begin_map) has no POS_SIDER
\* entry.
NoSiderEntry ==
    [p \in Placements, t \in Revisions |->
        LET m == parse_begin_map(Content(p[1], p[2], t))
        IN  m.ok /\ POS_SIDER \notin DOMAIN m.positions]

\* C11 -- A file without POS_SIDER is abandoned without effect.  When
\* process_file opens a file whose index has no POS_SIDER entry, the step
\* changes no row of the three tables and the run goes on with the files
\* left; no ingestion ever read such a version; and the fingerprint recorded
\* for the file is that of such a version only when an ingestion that read
\* another version wrote it (that version has its modification time in the
\* same second, or the file was replaced between lines 152 and 159), so that
\* otherwise the next run reads the file again.
C11_Step ==
    (/\ pc = "open" /\ cur' # cur /\ outcome' # "killed"
     /\ fs[<<cur.dir, cur.filename>>] # 0
     /\ NoSiderEntry[<<cur.dir, cur.filename>>, fs[<<cur.dir, cur.filename>>]])
        => (txn' = txn /\ next_id' = next_id /\ pc' = "loop" /\ todo' = todo)

C11_NeverRead ==
    \A v \in txn.ingested \cup committed.ingested :
        ~NoSiderEntry[<<DirOfServer(v[2]), v[1]>>, v[4]]

C11_NotFingerprinted ==
    \A db \in {txn, committed}, p \in Placements, t \in Revisions :
        (NoSiderEntry[p, t] /\ OwnFingerprint(db, p, t)) => ~FingerprintOf(db, p, t)

C11_NoSiderNoEffect ==
    [](C11_NeverRead /\ C11_NotFingerprinted) /\ [][C11_Step]_vars

\* A run has passed over the April file, whose index has no POS_SIDER entry,
\* with nothing recorded for this version, and is merging the March file of
\* the same directory.
C11_Witness ==
    /\ pc = "merge" /\ cur.filename = FileA3
    /\ cur.server_id = get_server_id(DirAwstats)
    /\ fs[<<DirAwstats, FileA4>>] = 2
    /\ NoSiderEntry[<<DirAwstats, FileA4>>, 2]
    /\ <<DirAwstats, FileA4>> \in InScope(fs, dirs, args)
    /\ \A i \in 1..Len(todo) : todo[i].dir # DirAwstats \/ FileA4 \notin todo[i].files
    /\ changes = started
    /\ txn.partial = {<<FileA3, cur.server_id>>}

\* The lines of bytes from byte off on, each decoded and stripped.
TextLines(bytes, off) ==
    LET raw == FileLines(bytes, off)
    IN  [k \in 1..Len(raw) |-> DecodeStrip(raw[k]).line]

\* Whether lines[i..], up to the END_SIDER line, hold a five-field record line
\* with a counter field that int() refuses; with any_url FALSE only the lines
\* whose normalized URL is not ignored count.
RECURSIVE BadRecordFrom(_, _, _)
BadRecordFrom(lines, i, any_url) ==
    IF i > Len(lines) \/ StartsWith(lines[i], END_SIDER) THEN FALSE
    ELSE LET parts == SplitWS(lines[i])
         IN  \/ /\ ~StartsWith(lines[i], <<"#">>)
                /\ ~StartsWith(lines[i], BEGIN_SIDER)
                /\ Len(parts) = 5
                /\ \E k \in 2..5 : ~IsInt(parts[k])
                /\ any_url \/ ~should_ignore_url(NormalizeUrl(parts[1]))
             \/ BadRecordFrom(lines, i + 1, any_url)

\* The versions of the files whose Sider section (the index names its offset,
\* one that seek and the first read take on some file system) holds such a
\* line.
HasBadRecord(any_url) ==
    [p \in Placements, t \in Revisions |->
        LET m == parse_begin_map(Content(p[1], p[2], t))
        IN  /\ m.ok
            /\ POS_SIDER \in DOMAIN m.positions
            /\ \E b \in MaxBytes : seek_and_read(m.positions[POS_SIDER], b) = "ok"
            /\ BadRecordFrom(TextLines(Content(p[1], p[2], t),
                                       FilePosition(Content(p[1], p[2], t),
                                                    m.positions[POS_SIDER])),
                             1, any_url)]

BadAnyUrl == HasBadRecord(TRUE)
BadAcceptedUrl == HasBadRecord(FALSE)

\* No version of bad that was read is being merged or has been merged, in
\* the open database or the durable one; and the fingerprint recorded for a
\* file is that of a version of bad only when an ingestion that read
\* another version wrote it (that version has its modification time in the
\* same second, or the file was replaced between lines 152 and 159).
NeverIngested(bad) ==
    /\ pc = "merge" =>
          ~bad[<<DirOfServer(cur.server_id), cur.filename>>, cur.read]
    /\ \A v \in txn.ingested \cup committed.ingested :
          ~bad[<<DirOfServer(v[2]), v[1]>>, v[4]]
    /\ \A db \in {txn, committed}, p \in Placements, t \in Revisions :
          (bad[p, t] /\ OwnFingerprint(db, p, t)) => ~FingerprintOf(db, p, t)

\* C12 -- A non-integer counter is fatal for the file.  Stated of every
\* five-field record line, whatever its URL: a file version that holds such a
\* line with a non-integer counter is never merged and never fingerprinted.
C12_AnyUrlFatal == NeverIngested(BadAnyUrl)

\* C12 as it holds -- the same of the record lines whose normalized URL is not
\* ignored: reading such a version raises, none of its records is merged and
\* no fingerprint is recorded for it.
C12_AcceptedUrlFatal ==
    /\ \A p \in Placements, t \in Revisions, b \in MaxBytes :
          (BadAcceptedUrl[p, t] /\ FileData[p, t, b].kind # "OSError")
             => FileData[p, t, b].kind = "ValueError"
    /\ NeverIngested(BadAcceptedUrl)

\* A run over the file of website a.b whose record "/C" has the page count "x"
\* has ended by ValueError, no other file of the run being in error.
C12_Witness ==
    /\ outcome = "ValueError"
    /\ fs[<<DirFrankfurt, FileAB3>>] = 2
    /\ BadAcceptedUrl[<<DirFrankfurt, FileAB3>>, 2]
    /\ fs[<<DirAwstats, FileZ3>>] = 0

\* The URLs the filter is to drop: empty, "/", or starting with an ignore
\* prefix.
IsIgnored(url) ==
    \/ url = <<>>
    \/ url = <<"/">>
    \/ \E k \in 1..Len(IgnorePatterns) :
          Len(url) >= Len(IgnorePatterns[k])
          /\ SubSeq(url, 1, Len(IgnorePatterns[k])) = IgnorePatterns[k]

\* The number of five-field record lines in lines[i..] up to the END_SIDER
\* line; with ignored_only, of those whose normalized URL is to be dropped.
RECURSIVE CountRecords(_, _, _)
CountRecords(lines, i, ignored_only) ==
    IF i > Len(lines) \/ StartsWith(lines[i], END_SIDER) THEN 0
    ELSE LET parts == SplitWS(lines[i])
         IN  (IF /\ ~StartsWith(lines[i], <<"#">>)
                 /\ ~StartsWith(lines[i], BEGIN_SIDER)
                 /\ Len(parts) = 5
                 /\ ignored_only => IsIgnored(NormalizeUrl(parts[1]))
              THEN 1 ELSE 0)
             + CountRecords(lines, i + 1, ignored_only)

\* Per version of a file whose Sider section is read on some file system:
\* the number of its record lines and of the ignored ones among them.
RecordCount(ignored_only) ==
    [p \in Placements, t \in Revisions |->
        LET m == parse_begin_map(Content(p[1], p[2], t))
        IN  IF m.ok /\ POS_SIDER \in DOMAIN m.positions
                    /\ \E b \in MaxBytes : seek_and_read(m.positions[POS_SIDER], b) = "ok"
            THEN CountRecords(TextLines(Content(p[1], p[2], t),
                                        FilePosition(Content(p[1], p[2], t),
                                                     m.positions[POS_SIDER])),
                              1, ignored_only)
            ELSE 0]

AllRecords == RecordCount(FALSE)
IgnoredRecords == RecordCount(TRUE)

\* C13 -- Ignore filtering.  No row of website_url, durable or not, holds an
\* ignored URL, no record being merged has one, and the records read from a
\* file are its record lines less the ignored ones.
C13_IgnoredNeverStored ==
    /\ \A r \in txn.url \cup committed.url : ~IsIgnored(r.url)
    /\ \A i \in 1..Len(cur.data) : ~IsIgnored(cur.data[i].url)
    /\ \A p \in Placements, t \in Revisions, b \in MaxBytes :
          FileData[p, t, b].kind = "data" =>
             /\ Len(FileData[p, t, b].data) = AllRecords[p, t] - IgnoredRecords[p, t]
             /\ \A i \in 1..Len(FileData[p, t, b].data) :
                   ~IsIgnored(FileData[p, t, b].data[i].url)

\* The file with five record lines, three of them ignored ("/wiki/", "//" and
\* "/S:x"), has been merged into an empty database: two URL rows.
C13_Witness ==
    /\ pc = "merge" /\ cur.data = <<>>
    /\ cur.filename = FileA3 /\ cur.server_id = get_server_id(DirAwstats)
    /\ cur.last_modified = 2 /\ cur.read = 2
    /\ AllRecords[<<DirAwstats, FileA3>>, 2] = 5
    /\ IgnoredRecords[<<DirAwstats, FileA3>>, 2] = 3
    /\ committed.url = {} /\ txn.ingested = {}
    /\ Cardinality(txn.url) = 2
    /\ Cardinality(DOMAIN txn.stats) = 2

\* C14 -- The skip decision.  For every file, server, version of the file
\* and value of force, has_file_been_processed, given the modification time
\* of the version cut to the second, is FALSE when force is set and
\* otherwise TRUE exactly when file_tracking holds a row for this very
\* (filename, server id) with this value; and process_file acts on it: the
\* value it compares is the modification time of the file cut to the second,
\* a file is opened only when forced or when there is no such row, and a file
\* that has one is passed over with no change.
C14_Decision ==
    \A db \in {txn, committed}, p \in Placements, t \in Revisions, force \in BOOLEAN :
        has_file_been_processed(db, p[2], get_server_id(p[1]),
                                getmtime(p, t) \div TicksPerSecond, force)
          <=> /\ ~force
              /\ <<p[2], get_server_id(p[1])>> \in DOMAIN db.track
              /\ db.track[<<p[2], get_server_id(p[1])>>].last_modified
                    = getmtime(p, t) \div TicksPerSecond

C14_Step ==
    /\ (pc = "loop" /\ pc' = "open") =>
          cur'.last_modified * TicksPerSecond
             = getmtime(<<cur'.dir, cur'.filename>>, fs[<<cur'.dir, cur'.filename>>])
               - (getmtime(<<cur'.dir, cur'.filename>>, fs[<<cur'.dir, cur'.filename>>])
                    % TicksPerSecond)
    /\ (pc = "loop" /\ pc' = "open") =>
          \/ args.force
          \/ <<cur'.filename, cur'.server_id>> \notin DOMAIN txn.track
          \/ txn.track[<<cur'.filename, cur'.server_id>>].last_modified
                # cur'.last_modified
    /\ (pc = "loop" /\ todo # <<>> /\ ~args.force /\ outcome' # "killed") =>
          \A f \in todo[1].files :
             (todo' = Taken(f) /\ Fingerprinted(txn, fs, <<todo[1].dir, f>>))
                => (txn' = txn /\ pc' = "loop")

C14_SkipDecision ==
    []C14_Decision /\ [][C14_Step]_vars

\* A run without force merges the March file of server 2 although the file of
\* the same name of server 1 is fingerprinted with the same modification
\* time.
C14_Witness ==
    /\ pc = "merge" /\ ~args.force
    /\ cur.filename = FileA3 /\ cur.server_id = get_server_id(DirFrankfurt)
    /\ <<FileA3, get_server_id(DirAwstats)>> \in DOMAIN txn.track
    /\ txn.track[<<FileA3, get_server_id(DirAwstats)>>].last_modified = cur.last_modified
    /\ <<FileA3, cur.server_id>> \notin DOMAIN txn.track

\* The URL the normalization is to give for a first field, read off the
\* field itself: one leading "/" and then one leading "wiki/" are removed,
\* what is left is percent-decoded.
Unprefixed(r) ==
    IF Len(r) >= 6 /\ SubSeq(r, 1, 6) = <<"/", "w", "i", "k", "i", "/">>
    THEN SubSeq(r, 7, Len(r))
    ELSE IF Len(r) >= 1 /\ r[1] = "/" THEN SubSeq(r, 2, Len(r))
    ELSE IF Len(r) >= 5 /\ SubSeq(r, 1, 5) = <<"w", "i", "k", "i", "/">>
    THEN SubSeq(r, 6, Len(r))
    ELSE r

SomePageStored == <<"S", "o", "m", "e", " ", "P", "a", "g", "e">>

\* C15 -- URL normalization.  The record parse_pos_sider returns for a line
\* has the first field less one leading "/" and then one leading "wiki/",
\* percent-decoded afterwards (a second "/" or "wiki/" stays, and so does a
\* prefix that decoding brings about); the line is dropped when that URL is
\* ignored.  "wiki/Some%20Page" and "/wiki/Some%20Page" give "Some Page".
C15_Normalization ==
    /\ NormalizeUrl(WikiPrefix \o SomePage) = SomePageStored
    /\ NormalizeUrl(<<"/">> \o WikiPrefix \o SomePage) = SomePageStored
    /\ first_field # <<>> =>
          IF IsIgnored(unquote(Unprefixed(first_field)))
          THEN decoded = <<>>
          ELSE /\ Len(decoded) = 1
               /\ decoded[1].url = unquote(Unprefixed(first_field))

\* The line with first field "wiki/wiki/%2F" was decoded: the second "wiki/"
\* is kept, and so is the "/" that decoding produced.
C15_Witness ==
    /\ first_field = WikiPrefix \o WikiPrefix \o <<"%", "2", "F">>
    /\ Len(decoded) = 1
    /\ decoded[1].url = WikiPrefix \o <<"/">>

\* website_url of db has one row per (website id, url) and per id.
UniqueUrls(db) ==
    \A r1 \in db.url, r2 \in db.url :
        ((r1.website_id = r2.website_id /\ r1.url = r2.url) \/ r1.id = r2.id) => r1 = r2

\* C16 -- URL identifiers are unique and stable.  In every state the open and
\* the durable website_url hold at most one row per (website id, url);
\* get_or_create_website_url_id called for the website and URL of a row
\* returns the id of that row and inserts nothing; and a step of the merge
\* loop for a URL that has a row leaves website_url and the counter of
\* identifiers as they are.
C16_State ==
    /\ UniqueUrls(txn) /\ UniqueUrls(committed)
    /\ \A r \in txn.url :
          get_or_create_website_url_id(txn, next_id, r.website_id, r.url)
            = [id |-> r.id, db |-> txn, next_id |-> next_id]
    /\ \A r \in txn.url : r.id < next_id

C16_Step ==
    (pc = "merge" /\ pc' = "merge" /\ cur' # cur) =>
        IF \E r \in txn.url : r.website_id = cur.website_id /\ r.url = cur.data[1].url
        THEN txn'.url = txn.url /\ next_id' = next_id
        ELSE /\ txn'.url = txn.url \cup {[id |-> next_id, website_id |-> cur.website_id,
                                          url |-> cur.data[1].url]}
             /\ next_id' = next_id + 1

C16_UrlIdsStable ==
    []C16_State /\ [][C16_Step]_vars

\* A run without force is merging into the bucket of a URL row that an
\* earlier run committed: the row is there with its id and the counters of
\* its bucket have grown.
C16_Witness ==
    /\ pc = "merge" /\ ~txn.forced
    /\ Cardinality(txn.url) = Cardinality(committed.url)
    /\ \E r \in committed.url :
          /\ r \in txn.url
          /\ \E k \in DOMAIN committed.stats :
                k[1] = r.id /\ txn.stats[k] # committed.stats[k]

\* C17 -- The two derivations agree.  When a forced run given a file name has
\* done its reset (so the name was accepted by the deletion path), the website
\* name, year and month the reset deleted for are those process_file derives
\* from the same name.
C17_DerivationsAgree ==
    (pc \in {"loop", "open", "merge"} /\ args.force /\ args.file # NoText) =>
        /\ ForcedFileKey(args.file).ok
        /\ ProcessFileKey(args.file).ok
        /\ ForcedFileKey(args.file).website_name = ProcessFileKey(args.file).website_name
        /\ ForcedFileKey(args.file).year = ProcessFileKey(args.file).year
        /\ ForcedFileKey(args.file).month = ProcessFileKey(args.file).month

\* C18 -- No under-processing.  In every durable state, a file whose
\* fingerprint is that of its modification time (a run without force would
\* pass it over), written only by ingestions that read the version the file
\* is in (none read another version of the same second, or one that replaced
\* it between lines 152 and 159), has each of its records in the aggregates:
\* the URL has a row and the bucket of the file's website, server, year and
\* month holds at least what the file contributes to that URL.
C18_NoUnderProcessing ==
    \A p \in Placements :
        (Fingerprinted(committed, fs, p) /\ OwnFingerprint(committed, p, fs[p])
            /\ Reading(p, fs[p]).kind = "data") =>
            LET sid  == get_server_id(p[1])
                key  == ProcessFileKey(p[2])
                w    == WebsiteLookup(key.website_name)
                data == Reading(p, fs[p]).data
            IN  \A i \in 1..Len(data) :
                   /\ UrlIdOf(committed, w, data[i].url) # 0
                   /\ Covers(Bucket(committed, w, data[i].url, sid, key.year, key.month),
                             ContributionOf(data, data[i].url))

=============================================================================
